---- MODULE Spec2Model ----
(***************************************************************************)
(* Photo download service: the Runner state machine (start / stop /        *)
(* run_once / background loop), the HTTP control handlers in front of it,  *)
(* and one scan -> diff -> resolve -> fetch -> store cycle.                *)
(*                                                                         *)
(* The service runs on one asyncio event loop: a coroutine runs without    *)
(* interruption from one suspension point (a real await) to the next.      *)
(* Every action below is one such uninterrupted segment.                   *)
(***************************************************************************)
EXTENDS Integers, Sequences, FiniteSets, TLC

(* ------------------------------------------------------------------ *)
(* Bounds of the model                                                *)
(* ------------------------------------------------------------------ *)
\* concurrent request handlers (callers of the Runner)
NumCallers == 2
\* calls issued in one behaviour
MaxCalls == 3
\* cycles begun in one behaviour (caps Runner._loop_index)
MaxCycles == 2
\* gallery items on a page
MaxItems == 2

Callers == 1..NumCallers
LoopTask == 0
Procs == Callers \cup {LoopTask}

(* ------------------------------------------------------------------ *)
(* Python values of a config payload                                  *)
(* Strings are sequences of one-character strings.                    *)
(* ------------------------------------------------------------------ *)
Missing == [t |-> "missing", s |-> <<>>, n |-> 0]
Null == [t |-> "null", s |-> <<>>, n |-> 0]
Str(s) == [t |-> "str", s |-> s, n |-> 0]
Int_(n) == [t |-> "int", s |-> <<>>, n |-> n]
\* a float, given in tenths: Float(25) is 2.5
Float(tenths) == [t |-> "float", s |-> <<>>, n |-> tenths]

IsSpace(ch) == ch = " "

RECURSIVE LStrip(_)
LStrip(s) == IF s # <<>> /\ IsSpace(Head(s)) THEN LStrip(Tail(s)) ELSE s

RECURSIVE RStrip(_)
RStrip(s) ==
  IF s # <<>> /\ IsSpace(s[Len(s)]) THEN RStrip(SubSeq(s, 1, Len(s) - 1)) ELSE s

\* str.strip()
Strip(s) == RStrip(LStrip(s))

DigitChars == <<"0", "1", "2", "3", "4", "5", "6", "7", "8", "9">>
IsDigit(ch) == \E i \in 1..10 : DigitChars[i] = ch
DigitVal(ch) == (CHOOSE i \in 1..10 : DigitChars[i] = ch) - 1

RECURSIVE DigitsVal(_, _)
DigitsVal(s, acc) ==
  IF s = <<>> THEN acc ELSE DigitsVal(Tail(s), acc * 10 + DigitVal(Head(s)))

\* str(value), with the "" default of dict.get(key, "") for a missing key
PyStr(v) ==
  CASE v.t = "str" -> v.s
    [] v.t = "missing" -> <<>>
    [] v.t = "null" -> <<"N", "o", "n", "e">>
    [] v.t = "int" /\ v.n \in 0..9 -> <<DigitChars[v.n + 1]>>
    [] OTHER -> <<"?">>

\* int(value) raises TypeError / ValueError: None, a non-numeric string
IntRaises(v) ==
  \/ v.t = "null"
  \/ /\ v.t = "str"
     /\ LET d == Strip(v.s) IN d = <<>> \/ \E i \in 1..Len(d) : ~IsDigit(d[i])

\* int(value) where it does not raise; a float is truncated toward zero
IntValue(v) ==
  CASE v.t = "int" -> v.n
    [] v.t = "missing" -> 0
    [] v.t = "float" -> IF v.n >= 0 THEN v.n \div 10 ELSE -((-v.n) \div 10)
    [] v.t = "str" -> DigitsVal(Strip(v.s), 0)
    [] OTHER -> 0

\* try: interval = int(raw.get("check_interval", 0)) except: interval = 0
IntervalOf(v) == IF IntRaises(v) THEN 0 ELSE IntValue(v)

(* ------------------------------------------------------------------ *)
(* Runtime configs                                                    *)
(* ------------------------------------------------------------------ *)
\* None / {} : "no config" (falsy in Python)
NoConfig == [target_url |-> <<>>, dropbox_save_path |-> <<>>, check_interval |-> 0]

\* a payload: None, or a dict with (possibly missing) keys
NoneRaw == [kind |-> "none", target_url |-> Missing, dropbox_save_path |-> Missing,
            check_interval |-> Missing]
Dict(u, p, i) == [kind |-> "dict", target_url |-> u, dropbox_save_path |-> p,
                  check_interval |-> i]

\* `not raw`: None or the empty dict
Falsy(raw) ==
  \/ raw.kind = "none"
  \/ /\ raw.target_url.t = "missing"
     /\ raw.dropbox_save_path.t = "missing"
     /\ raw.check_interval.t = "missing"

\* a (normalized) config seen as a dict again
AsRaw(cfg) ==
  IF cfg = NoConfig THEN Dict(Missing, Missing, Missing)
  ELSE Dict(Str(cfg.target_url), Str(cfg.dropbox_save_path), Int_(cfg.check_interval))

NormalizeDropsStrip(raw) ==
  LET url == PyStr(raw.target_url)
      path == PyStr(raw.dropbox_save_path)
      interval == IntervalOf(raw.check_interval)
  IN IF Falsy(raw) \/ url = <<>> \/ path = <<>> \/ interval <= 0
     THEN [ok |-> FALSE, cfg |-> NoConfig]
     ELSE [ok |-> TRUE,
           cfg |-> [target_url |-> url, dropbox_save_path |-> path,
                    check_interval |-> interval]]

\* Runner._normalize_config: ok = FALSE stands for the ValueError
Normalize(raw) ==
  LET url == Strip(PyStr(raw.target_url))
      path == Strip(PyStr(raw.dropbox_save_path))
      interval == IntervalOf(raw.check_interval)
  IN IF Falsy(raw) \/ url = <<>> \/ path = <<>> \/ interval <= 0
     THEN [ok |-> FALSE, cfg |-> NoConfig]
     ELSE [ok |-> TRUE,
           cfg |-> [target_url |-> url, dropbox_save_path |-> path,
                    check_interval |-> interval]]

\* api._parse_config_payload: ok = FALSE stands for the HTTPException(400)
ParsePayload(raw) ==
  LET url == Strip(PyStr(raw.target_url))
      path == Strip(PyStr(raw.dropbox_save_path))
      interval == IntervalOf(raw.check_interval)
  IN IF raw.kind # "dict" \/ url = <<>> \/ interval <= 0 \/ path = <<>>
     THEN [ok |-> FALSE, cfg |-> NoConfig]
     ELSE [ok |-> TRUE,
           cfg |-> [target_url |-> url, dropbox_save_path |-> path,
                    check_interval |-> interval]]

\* the payloads the callers send
U == <<"u">>
P == <<"p">>
ValidRaw == {Dict(Str(U), Str(P), Int_(1))}
\* blanks around the values: normalizes to CfgW
PaddedRaw == {Dict(Str(<<" ", "u", " ">>), Str(<<"p", " ">>), Str(<<" ", "2">>))}
BadRaw ==
  {NoneRaw, Dict(Missing, Missing, Missing)}
  \cup {Dict(u, Str(P), Int_(1)) : u \in {Missing, Str(<<>>), Str(<<" ">>)}}
  \cup {Dict(Str(U), p, Int_(1)) : p \in {Missing, Str(<<" ", " ">>)}}
  \cup {Dict(Str(U), Str(P), i) :
          i \in {Missing, Null, Int_(0), Int_(0 - 1), Str(<<"x">>), Str(<<"2", ".", "5">>),
                 Float(5)}}
\* a fractional interval above one: int(2.5) = 2
FractionalRaw == {Dict(Str(U), Str(P), Float(25))}
RawConfigs == ValidRaw \cup PaddedRaw \cup BadRaw \cup FractionalRaw
\* the payloads the clients of the HTTP API send (JSON objects)
Payloads ==
  ValidRaw \cup PaddedRaw
    \cup {Dict(Str(<<" ">>), Str(P), Int_(1)), Dict(Str(U), Str(P), Float(5))}

CfgU == [target_url |-> U, dropbox_save_path |-> P, check_interval |-> 1]
CfgW == [target_url |-> U, dropbox_save_path |-> P, check_interval |-> 2]

(* ------------------------------------------------------------------ *)
(* The gallery and the stores                                         *)
(* ------------------------------------------------------------------ *)
\* fingerprints (thumbnail file names) shown by the gallery
Fingerprints == {"A", "B"}
\* a page: the fingerprints of its items, in page order
Pages == UNION {[1..n -> Fingerprints] : n \in 0..MaxItems}
\* what happens to one item of the resolver pass and to its download
Outcomes == {"unresolved", "ok", "fetch_fail", "upload_fail", "local_fail"}

\* downloaded.json: absent, or version "2.0" with its downloads, or cut short
\* (opened for writing and not written to its end: not parseable)
NoFile == [exists |-> FALSE, valid |-> FALSE, downloads |-> {}]
HistoryFile(d) == [exists |-> TRUE, valid |-> TRUE, downloads |-> d]
Truncated == [exists |-> TRUE, valid |-> FALSE, downloads |-> {}]

NoCycle == [phase |-> "none", cfg |-> NoConfig, idx |-> 0, downloads |-> {},
            dropbox |-> FALSE, unknown |-> <<>>, total |-> 0, new |-> 0,
            resolved |-> 0, ok |-> 0, failed |-> 0]
NoStatus == [loop_index |-> 0, success |-> FALSE, last_error |-> FALSE,
             total_photos |-> 0, new_photos |-> 0, download_success |-> 0,
             download_failed |-> 0, dropbox_enabled |-> FALSE, config |-> NoConfig]
NoCall == [op |-> "none", pc |-> "idle", cfg |-> NoConfig, ret |-> "none"]
\* no procedure outside the Runner is running
NoUnit == [kind |-> "none"]

VARIABLES
  booted,         \* on_startup has run
  env,            \* process configuration: SAVE_TO_LOCAL, Dropbox credentials, FRESH_START
  task,           \* Runner._task: "none" | "running" | "done" | "failed"
  loopPc,         \* where the loop task stands: "top" | "lockwait" | "locked" | "cycle" | "sleep" | "end"
  ticks,          \* one-second sleeps left of the interval wait
  stop_event,     \* Runner._stop_event
  active_config,  \* Runner._active_config
  rt_file,        \* runtime-config.json (NoConfig: absent)
  lockHolder,     \* Runner._lock: the holder, or -1
  lockQueue,      \* Runner._lock: the waiters, first come first served
  call,           \* per request handler: the call it is serving
  ncalls,         \* calls issued so far
  loop_index,     \* Runner._loop_index
  cleared,        \* Runner._cleared
  cyc,            \* per task: the locals of its _run_cycle
  status_file,    \* status.json
  history_file,   \* history.jsonl
  dedup_file,     \* downloaded.json
  dropbox_files,  \* photos uploaded to the cloud sink
  local_files,    \* photos written to the local photo directory
  dl_log,         \* the download_photo calls of the cycle in progress
  unit            \* the locals of a procedure that runs outside the Runner

vars == <<booted, env, task, loopPc, ticks, stop_event, active_config, rt_file,
          lockHolder, lockQueue, call, ncalls, loop_index, cleared, cyc,
          status_file, history_file, dedup_file, dropbox_files, local_files, dl_log,
          unit>>

runnerVars == <<task, loopPc, ticks, stop_event, active_config, rt_file>>
lockVars == <<lockHolder, lockQueue>>
cycleVars == <<loop_index, cleared, cyc, dedup_file, local_files>>
storeVars == <<status_file, history_file, dropbox_files, dl_log>>

Free == 0 - 1

\* server/app/config.py defaults: no Dropbox credentials, SAVE_TO_LOCAL and FRESH_START off
DefaultEnv == [save_to_local |-> FALSE, dropbox |-> FALSE, fresh_start |-> FALSE]
Envs == [save_to_local : BOOLEAN, dropbox : BOOLEAN, fresh_start : BOOLEAN]

\* the state after construction: `stores` are the downloaded.json files an earlier
\* process may have left
ServiceInit(envs, files, up, stores) ==
  /\ booted = up
  /\ env \in envs
  /\ task = "none"
  /\ loopPc = "end"
  /\ ticks = 0
  /\ stop_event = FALSE
  /\ active_config = NoConfig
  /\ rt_file \in files
  /\ lockHolder = Free
  /\ lockQueue = <<>>
  /\ call = [c \in Callers |-> NoCall]
  /\ ncalls = 0
  /\ loop_index = 0
  /\ cleared = FALSE
  /\ cyc = [p \in Procs |-> NoCycle]
  /\ status_file = NoStatus
  /\ history_file = <<>>
  /\ dedup_file \in stores
  /\ dropbox_files = {}
  /\ local_files = {}
  /\ dl_log = <<>>

\* the service, with no other procedure running
InitStore(envs, files, up, stores) ==
  unit = NoUnit /\ ServiceInit(envs, files, up, stores)

InitWith(envs, files, up) == InitStore(envs, files, up, {NoFile})

\* a runtime-config.json left behind by a killed process may be present at startup
Init == InitWith({DefaultEnv}, {NoConfig, CfgU}, FALSE)

\* Runner.is_running
IsRunning == task = "running"

(* ------------------------------------------------------------------ *)
(* asyncio.Lock: first come first served, no barging                  *)
(* ------------------------------------------------------------------ *)
LockFreeIgnored == TRUE

\* Lock.acquire() returns without suspending: unlocked and nobody waiting
LockFree == lockHolder = Free

\* the waiter that Lock.release() wakes, or Free
NextHolder == IF lockQueue = <<>> THEN Free ELSE Head(lockQueue)

\* Lock.release()
Released ==
  /\ lockHolder' = NextHolder
  /\ lockQueue' = IF lockQueue = <<>> THEN <<>> ELSE Tail(lockQueue)

\* the woken waiter is past `async with self._lock`
Granted(callf) ==
  IF NextHolder \in Callers THEN [callf EXCEPT ![NextHolder].pc = "locked"] ELSE callf

GrantedLoop(pcv) == IF NextHolder = LoopTask THEN "locked" ELSE pcv

\* the callers suspended in `await self._task` are woken when the task ends
WakeStoppers(callf, how) ==
  [c \in Callers |->
     IF callf[c].pc = "await_task" THEN [callf[c] EXCEPT !.pc = how] ELSE callf[c]]

(* ------------------------------------------------------------------ *)
(* Runner._run_cycle, up to its first suspension point                *)
(* ------------------------------------------------------------------ *)
WipeOutcomes == [hist : BOOLEAN, dir : BOOLEAN]

\* FRESH_START fires when configured and not yet consumed
FreshStartFires == env.fresh_start /\ ~cleared

\* DownloadHistory._load_history
LoadHistory(file) == IF file.exists /\ file.valid THEN file.downloads ELSE {}

\* a cycle start that consumes the fresh-start flag only when the history file
\* is gone afterwards
BeginCycleFlagKeptOnFailure(p, cfg, w, cloud_ok) ==
  LET file == IF FreshStartFires /\ dedup_file.exists /\ w.hist THEN NoFile
              ELSE dedup_file
  IN /\ loop_index < MaxCycles
     /\ loop_index' = loop_index + 1
     /\ cleared' = (cleared \/ (env.fresh_start /\ ~file.exists))
     /\ dedup_file' = file
     /\ local_files' = IF FreshStartFires /\ env.save_to_local /\ w.dir THEN {}
                       ELSE local_files
     /\ cyc' = [cyc EXCEPT ![p] =
                  [phase |-> "nav", cfg |-> cfg, idx |-> loop_index + 1,
                   downloads |-> LoadHistory(file),
                   dropbox |-> env.dropbox /\ cloud_ok, unknown |-> <<>>,
                   total |-> 0, new |-> 0, resolved |-> 0, ok |-> 0, failed |-> 0]]

\* `w` tells whether os.remove / shutil.rmtree succeed, `cloud_ok` whether the
\* Dropbox client verifies and its path is usable
BeginCycle(p, cfg, w, cloud_ok) ==
  LET file == IF FreshStartFires /\ dedup_file.exists /\ w.hist THEN NoFile
              ELSE dedup_file
  IN /\ loop_index < MaxCycles
     /\ loop_index' = loop_index + 1
     /\ cleared' = (cleared \/ env.fresh_start)
     /\ dedup_file' = file
     /\ local_files' = IF FreshStartFires /\ env.save_to_local /\ w.dir THEN {}
                       ELSE local_files
     /\ cyc' = [cyc EXCEPT ![p] =
                  [phase |-> "nav", cfg |-> cfg, idx |-> loop_index + 1,
                   downloads |-> LoadHistory(file),
                   dropbox |-> env.dropbox /\ cloud_ok, unknown |-> <<>>,
                   total |-> 0, new |-> 0, resolved |-> 0, ok |-> 0, failed |-> 0]]

(* ------------------------------------------------------------------ *)
(* Runner.start / stop / run_once                                     *)
(* ------------------------------------------------------------------ *)
StartRetNoRunningCheck(raw) ==
  IF ~Falsy(raw)
  THEN (IF Normalize(raw).ok THEN "True" ELSE "ValueError")
  ELSE (IF Normalize(AsRaw(rt_file)).ok THEN "True" ELSE "ValueError")

\* what Runner.start returns ("ValueError": raised by _normalize_config)
StartRet(raw) ==
  IF IsRunning THEN "False"
  ELSE IF ~Falsy(raw)
  THEN (IF Normalize(raw).ok THEN "True" ELSE "ValueError")
  ELSE (IF Normalize(AsRaw(rt_file)).ok THEN "True" ELSE "ValueError")

StartEffectNoPersist(raw) ==
  IF StartRet(raw) = "True"
  THEN /\ active_config' = IF ~Falsy(raw) THEN Normalize(raw).cfg
                           ELSE Normalize(AsRaw(rt_file)).cfg
       /\ rt_file' = rt_file
       /\ stop_event' = FALSE
       /\ task' = "running"
       /\ loopPc' = "top"
       /\ ticks' = 0
  ELSE UNCHANGED runnerVars

\* what Runner.start does to the Runner
StartEffect(raw) ==
  IF StartRet(raw) = "True"
  THEN /\ active_config' = IF ~Falsy(raw) THEN Normalize(raw).cfg
                           ELSE Normalize(AsRaw(rt_file)).cfg
       /\ rt_file' = IF ~Falsy(raw) THEN Normalize(raw).cfg ELSE rt_file
       /\ stop_event' = FALSE
       /\ task' = "running"
       /\ loopPc' = "top"
       /\ ticks' = 0
  ELSE UNCHANGED runnerVars

\* Runner.start, called by handler c
RunnerStart(c, raw) ==
  /\ StartEffect(raw)
  /\ call' = [call EXCEPT ![c] =
                [op |-> "start", pc |-> "idle",
                 cfg |-> IF StartRet(raw) = "True" THEN active_config' ELSE NoConfig,
                 ret |-> StartRet(raw)]]
  /\ UNCHANGED <<unit, booted, env, lockVars, cycleVars, storeVars>>

RunnerStopCancels(c) ==
  /\ IsRunning
  /\ task' = "done"
  /\ loopPc' = "end"
  /\ stop_event' = TRUE
  /\ active_config' = NoConfig
  /\ rt_file' = NoConfig
  /\ call' = [WakeStoppers(call, "resume_ok") EXCEPT ![c] =
                [op |-> "stop", pc |-> "idle", cfg |-> NoConfig, ret |-> "True"]]
  /\ UNCHANGED <<unit, booted, env, ticks, lockVars, cycleVars, storeVars>>

\* Runner.stop, up to `await self._task`
RunnerStop(c) ==
  /\ IF ~IsRunning
     THEN /\ active_config' = NoConfig
          /\ rt_file' = NoConfig
          /\ call' = [call EXCEPT ![c] =
                        [op |-> "stop", pc |-> "idle", cfg |-> NoConfig, ret |-> "False"]]
          /\ UNCHANGED stop_event
     ELSE /\ stop_event' = TRUE
          /\ call' = [call EXCEPT ![c] =
                        [op |-> "stop", pc |-> "await_task", cfg |-> NoConfig,
                         ret |-> "pending"]]
          /\ UNCHANGED <<active_config, rt_file>>
  /\ UNCHANGED <<unit, booted, env, task, loopPc, ticks, lockVars, cycleVars, storeVars>>

\* a stop that leaves the runtime config file in place
StopResumeKeepsFile(c) ==
  /\ call[c].pc \in {"resume_ok", "resume_exc"}
  /\ IF call[c].pc = "resume_ok"
     THEN /\ active_config' = NoConfig
          /\ call' = [call EXCEPT ![c].pc = "idle", ![c].ret = "True"]
     ELSE call' = [call EXCEPT ![c].pc = "idle", ![c].ret = "RuntimeError"]
  /\ UNCHANGED <<unit, booted, env, task, loopPc, ticks, stop_event, rt_file, lockVars,
                 ncalls, cycleVars, storeVars>>

\* Runner.stop, after `await self._task`: the task's exception is re-raised
StopResume(c) ==
  /\ call[c].pc \in {"resume_ok", "resume_exc"}
  /\ IF call[c].pc = "resume_ok"
     THEN /\ active_config' = NoConfig
          /\ rt_file' = NoConfig
          /\ call' = [call EXCEPT ![c].pc = "idle", ![c].ret = "True"]
     ELSE /\ call' = [call EXCEPT ![c].pc = "idle", ![c].ret = "RuntimeError"]
          /\ UNCHANGED <<active_config, rt_file>>
  /\ UNCHANGED <<unit, booted, env, task, loopPc, ticks, stop_event, lockVars, ncalls,
                 cycleVars, storeVars>>

\* Runner.run_once, up to its first suspension point
RunnerRunOnce(c, raw, w, cloud_ok) ==
  LET n == Normalize(raw) IN
  IF ~n.ok
  THEN /\ call' = [call EXCEPT ![c] =
                     [op |-> "run_once", pc |-> "idle", cfg |-> NoConfig,
                      ret |-> "ValueError"]]
       /\ UNCHANGED <<unit, booted, env, runnerVars, lockVars, cycleVars, storeVars>>
  ELSE /\ active_config' = n.cfg
       /\ rt_file' = n.cfg
       /\ IF LockFree
          THEN /\ lockHolder' = c
               /\ UNCHANGED lockQueue
               /\ BeginCycle(c, n.cfg, w, cloud_ok)
               /\ call' = [call EXCEPT ![c] =
                             [op |-> "run_once", pc |-> "cycle", cfg |-> n.cfg,
                              ret |-> "pending"]]
          ELSE /\ lockQueue' = Append(lockQueue, c)
               /\ UNCHANGED <<lockHolder, cycleVars>>
               /\ call' = [call EXCEPT ![c] =
                             [op |-> "run_once", pc |-> "lockwait", cfg |-> n.cfg,
                              ret |-> "pending"]]
       /\ UNCHANGED <<unit, booted, env, task, loopPc, ticks, stop_event, storeVars>>

\* Runner.run_once, woken with the lock: _run_cycle starts, or raises at
\* _current_config and the finally clause runs
RunOnceLocked(c, w, cloud_ok) ==
  /\ call[c].pc = "locked"
  /\ IF active_config = NoConfig
     THEN /\ Released
          /\ call' = [Granted(call) EXCEPT ![c].pc = "idle", ![c].ret = "RuntimeError"]
          /\ loopPc' = GrantedLoop(loopPc)
          /\ active_config' = NoConfig
          /\ rt_file' = NoConfig
          /\ UNCHANGED cycleVars
     ELSE /\ BeginCycle(c, active_config, w, cloud_ok)
          /\ call' = [call EXCEPT ![c].pc = "cycle"]
          /\ UNCHANGED <<lockVars, loopPc, active_config, rt_file>>
  /\ UNCHANGED <<unit, booted, env, task, ticks, stop_event, ncalls, storeVars>>

(* ------------------------------------------------------------------ *)
(* Runner._loop                                                       *)
(* ------------------------------------------------------------------ *)
\* a loop that does not read the stop flag before a cycle
LoopTopIgnoresStop(w, cloud_ok) ==
  /\ IsRunning
  /\ loopPc = "top"
  /\ IF ~LockFree
     THEN /\ lockQueue' = Append(lockQueue, LoopTask)
          /\ loopPc' = "lockwait"
          /\ UNCHANGED <<task, call, lockHolder, cycleVars>>
     ELSE IF active_config = NoConfig
     THEN /\ task' = "failed"
          /\ loopPc' = "end"
          /\ call' = WakeStoppers(call, "resume_exc")
          /\ UNCHANGED <<lockVars, cycleVars>>
     ELSE /\ lockHolder' = LoopTask
          /\ BeginCycle(LoopTask, active_config, w, cloud_ok)
          /\ loopPc' = "cycle"
          /\ UNCHANGED <<task, call, lockQueue>>
  /\ UNCHANGED <<unit, booted, env, ticks, stop_event, active_config, rt_file, ncalls,
                 storeVars>>

\* `while not self._stop_event.is_set(): async with self._lock: _run_cycle()`
LoopTop(w, cloud_ok) ==
  /\ IsRunning
  /\ loopPc = "top"
  /\ IF stop_event
     THEN /\ task' = "done"
          /\ loopPc' = "end"
          /\ call' = WakeStoppers(call, "resume_ok")
          /\ UNCHANGED <<lockVars, cycleVars>>
     ELSE IF ~LockFree
     THEN /\ lockQueue' = Append(lockQueue, LoopTask)
          /\ loopPc' = "lockwait"
          /\ UNCHANGED <<task, call, lockHolder, cycleVars>>
     ELSE IF active_config = NoConfig
     THEN /\ task' = "failed"
          /\ loopPc' = "end"
          /\ call' = WakeStoppers(call, "resume_exc")
          /\ UNCHANGED <<lockVars, cycleVars>>
     ELSE /\ lockHolder' = LoopTask
          /\ BeginCycle(LoopTask, active_config, w, cloud_ok)
          /\ loopPc' = "cycle"
          /\ UNCHANGED <<task, call, lockQueue>>
  /\ UNCHANGED <<unit, booted, env, ticks, stop_event, active_config, rt_file, ncalls,
                 storeVars>>

\* the loop task, woken with the lock
LoopLocked(w, cloud_ok) ==
  /\ IsRunning
  /\ loopPc = "locked"
  /\ IF active_config = NoConfig
     THEN /\ Released
          /\ task' = "failed"
          /\ loopPc' = "end"
          /\ call' = WakeStoppers(Granted(call), "resume_exc")
          /\ UNCHANGED cycleVars
     ELSE /\ BeginCycle(LoopTask, active_config, w, cloud_ok)
          /\ loopPc' = "cycle"
          /\ UNCHANGED <<task, call, lockVars>>
  /\ UNCHANGED <<unit, booted, env, ticks, stop_event, active_config, rt_file, ncalls,
                 storeVars>>

\* one `await asyncio.sleep(1)` of the interval wait returns
LoopTick ==
  /\ IsRunning
  /\ loopPc = "sleep"
  /\ ticks' = ticks - 1
  /\ loopPc' = IF ticks - 1 = 0 \/ stop_event THEN "top" ELSE "sleep"
  /\ UNCHANGED <<unit, booted, env, task, stop_event, active_config, rt_file, lockVars,
                 call, ncalls, cycleVars, storeVars>>

(* ------------------------------------------------------------------ *)
(* Runner._run_cycle, from its first suspension point on              *)
(* ------------------------------------------------------------------ *)
FailResult(p) ==
  [loop_index |-> cyc[p].idx, success |-> FALSE, last_error |-> TRUE,
   total_photos |-> 0, new_photos |-> 0, download_success |-> 0,
   download_failed |-> 0, dropbox_enabled |-> FALSE, config |-> cyc[p].cfg]

OkResultCountsItemFailures(p) ==
  [loop_index |-> cyc[p].idx, success |-> cyc[p].failed = 0, last_error |-> FALSE,
   total_photos |-> cyc[p].total, new_photos |-> cyc[p].new,
   download_success |-> cyc[p].ok, download_failed |-> cyc[p].failed,
   dropbox_enabled |-> cyc[p].dropbox, config |-> cyc[p].cfg]

\* the CycleResult of a cycle that reached its end
OkResult(p) ==
  [loop_index |-> cyc[p].idx, success |-> TRUE, last_error |-> FALSE,
   total_photos |-> cyc[p].total, new_photos |-> cyc[p].new,
   download_success |-> cyc[p].ok, download_failed |-> cyc[p].failed,
   dropbox_enabled |-> cyc[p].dropbox, config |-> cyc[p].cfg]

\* the end of _run_cycle (save_status, append_history), the release of the lock,
\* and what follows without suspension: for the loop, the read of the interval;
\* for run_once, its finally clause
Finish(p, res) ==
  /\ status_file' = res
  /\ history_file' = Append(history_file, res)
  /\ cyc' = [cyc EXCEPT ![p] = NoCycle]
  /\ dl_log' = <<>>
  /\ Released
  /\ IF p = LoopTask
     THEN /\ IF active_config = NoConfig
             THEN /\ task' = "failed"
                  /\ loopPc' = "end"
                  /\ ticks' = 0
                  /\ call' = WakeStoppers(Granted(call), "resume_exc")
             ELSE /\ task' = task
                  /\ loopPc' = IF stop_event THEN "top" ELSE "sleep"
                  /\ ticks' = IF stop_event THEN 0 ELSE active_config.check_interval
                  /\ call' = Granted(call)
          /\ UNCHANGED <<active_config, rt_file>>
     ELSE /\ active_config' = NoConfig
          /\ rt_file' = NoConfig
          /\ call' = [Granted(call) EXCEPT ![p].pc = "idle", ![p].ret = "completed"]
          /\ loopPc' = GrantedLoop(loopPc)
          /\ UNCHANGED <<task, ticks>>
  /\ UNCHANGED <<unit, booted, env, stop_event, ncalls, loop_index, cleared, dedup_file,
                 dropbox_files, local_files>>

\* page.goto and the render wait return
NavDone(p) ==
  /\ cyc[p].phase = "nav"
  /\ cyc' = [cyc EXCEPT ![p].phase = "scan"]
  /\ UNCHANGED <<unit, booted, env, runnerVars, lockVars, call, ncalls, loop_index, cleared,
                 dedup_file, local_files, storeVars>>

\* a save that writes the file without its records
SaveHistoryDropsRecords(downloads) == HistoryFile({})

\* DownloadHistory.save_history
SaveHistory(downloads) == HistoryFile(downloads)

\* a filter that keeps every scanned item
FilterUnknownKeepsAll(page, downloads) == page

RECURSIVE FilterUnknown(_, _)
\* [item for item in all_fingerprints if not history.is_downloaded_by_fingerprint(..)]
FilterUnknown(page, downloads) ==
  IF page = <<>> THEN <<>>
  ELSE IF Head(page) \in downloads THEN FilterUnknown(Tail(page), downloads)
  ELSE <<Head(page)>> \o FilterUnknown(Tail(page), downloads)

\* a scan after which the history is saved only when photos were downloaded
ScanDoneSavesOnlyNew(p, page) ==
  /\ cyc[p].phase = "scan"
  /\ LET unknown == FilterUnknown(page, cyc[p].downloads) IN
     cyc' = [cyc EXCEPT ![p].phase = IF unknown = <<>> THEN "close" ELSE "resolve",
                        ![p].unknown = unknown,
                        ![p].total = Len(page),
                        ![p].new = Len(unknown)]
  /\ UNCHANGED <<unit, booted, env, runnerVars, lockVars, call, ncalls, loop_index, cleared,
                 dedup_file, local_files, storeVars>>

\* extract_fingerprints_fast returns the fingerprints of `page`
ScanDone(p, page) ==
  /\ cyc[p].phase = "scan"
  /\ LET unknown == FilterUnknown(page, cyc[p].downloads) IN
     /\ cyc' = [cyc EXCEPT ![p].phase = IF unknown = <<>> THEN "close" ELSE "resolve",
                           ![p].unknown = unknown,
                           ![p].total = Len(page),
                           ![p].new = Len(unknown)]
     /\ dedup_file' = IF unknown = <<>> THEN SaveHistory(cyc[p].downloads)
                      ELSE dedup_file
  /\ UNCHANGED <<unit, booted, env, runnerVars, lockVars, call, ncalls, loop_index, cleared,
                 local_files, storeVars>>

Range(f) == {f[i] : i \in DOMAIN f}

RECURSIVE Resolved(_, _, _)
\* extract_photo_urls_by_fingerprints: the items of the page whose fingerprint is a
\* target and whose detail view gave a link, in page order
Resolved(page, outs, targets) ==
  IF page = <<>> THEN <<>>
  ELSE IF Head(page) \in targets /\ Head(outs) # "unresolved"
  THEN <<[fp |-> Head(page), out |-> Head(outs)]>>
         \o Resolved(Tail(page), Tail(outs), targets)
  ELSE Resolved(Tail(page), Tail(outs), targets)

\* a download that succeeds when the local copy could be written
DownloadOkLocalRescues(out, dropbox) ==
  /\ out # "fetch_fail"
  /\ ~(dropbox /\ out = "upload_fail") \/ env.save_to_local

\* PhotoDownloader.download_photo: its return value
DownloadOk(out, dropbox) ==
  /\ out # "fetch_fail"
  /\ ~(dropbox /\ out = "upload_fail")

\* PhotoDownloader.download_photo: the bytes reached the cloud sink
Uploaded(out, dropbox) == dropbox /\ out \notin {"fetch_fail", "upload_fail"}

\* PhotoDownloader.download_photo: the bytes reached the local directory
SavedLocal(out, dropbox) ==
  /\ env.save_to_local
  /\ DownloadOk(out, dropbox)
  /\ out # "local_fail"

RECURSIVE Downloads(_, _, _)
\* the `for idx, photo in enumerate(new_photos, 1)` loop of _run_cycle
Downloads(photos, dropbox, acc) ==
  IF photos = <<>> THEN acc
  ELSE LET ph == Head(photos)
           ok == DownloadOk(ph.out, dropbox)
       IN Downloads(Tail(photos), dropbox,
            [downloads |-> IF ok THEN acc.downloads \cup {ph.fp} ELSE acc.downloads,
             cloud |-> IF Uploaded(ph.out, dropbox) THEN acc.cloud \cup {ph.fp}
                       ELSE acc.cloud,
             local |-> IF SavedLocal(ph.out, dropbox) THEN acc.local \cup {ph.fp}
                       ELSE acc.local,
             ok |-> IF ok THEN acc.ok + 1 ELSE acc.ok,
             failed |-> IF ok THEN acc.failed ELSE acc.failed + 1,
             log |-> Append(acc.log,
                       [fp |-> ph.fp, known |-> ph.fp \in acc.downloads,
                        out |-> ph.out, cloud |-> dropbox,
                        recorded |-> ok,
                        stored |-> Uploaded(ph.out, dropbox)
                                     \/ SavedLocal(ph.out, dropbox)])])

\* the resolver returns; the photos are downloaded and the history is saved
ResolveDone(p, page, outs) ==
  /\ cyc[p].phase = "resolve"
  /\ LET photos == Resolved(page, outs, Range(cyc[p].unknown))
         r == Downloads(photos, cyc[p].dropbox,
                [downloads |-> cyc[p].downloads, cloud |-> dropbox_files,
                 local |-> local_files, ok |-> 0, failed |-> 0, log |-> <<>>])
     IN /\ cyc' = [cyc EXCEPT ![p].phase = "close", ![p].downloads = r.downloads,
                              ![p].resolved = Len(photos),
                              ![p].ok = r.ok, ![p].failed = r.failed]
        /\ dedup_file' = SaveHistory(r.downloads)
        /\ dropbox_files' = r.cloud
        /\ local_files' = r.local
        /\ dl_log' = r.log
  /\ UNCHANGED <<unit, booted, env, runnerVars, lockVars, call, ncalls, loop_index, cleared,
                 status_file, history_file>>

\* browser.close() returns
CloseDone(p) ==
  /\ cyc[p].phase = "close"
  /\ Finish(p, OkResult(p))

\* an exception in the browser session: caught by `except Exception`
CycleFail(p) ==
  /\ cyc[p].phase \in {"nav", "scan", "resolve", "close"}
  /\ Finish(p, FailResult(p))

(* ------------------------------------------------------------------ *)
(* The HTTP control handlers (api.py) and the callers                 *)
(* ------------------------------------------------------------------ *)
\* handler c takes the next request: the handlers are interchangeable, so the
\* lowest free one takes it
CanCall(c) ==
  /\ booted
  /\ ncalls < MaxCalls
  /\ call[c].pc = "idle"
  /\ \A d \in Callers : d < c => call[d].pc # "idle"

\* HTTPException(400): the handler ends before it reaches the Runner
Reject(c, op, why) ==
  /\ call' = [call EXCEPT ![c] =
                [op |-> op, pc |-> "idle", cfg |-> NoConfig, ret |-> why]]
  /\ UNCHANGED <<unit, booted, env, runnerVars, lockVars, cycleVars, storeVars>>

\* on_startup: AUTO_START restarts the loop from a runtime config left on disk
Boot(auto) ==
  /\ ~booted
  /\ booted' = TRUE
  /\ IF auto /\ rt_file # NoConfig
     THEN StartEffect(AsRaw(rt_file))
     ELSE UNCHANGED runnerVars
  /\ UNCHANGED <<unit, env, lockVars, call, ncalls, cycleVars, storeVars>>

\* POST /api/control/start
ApiStart(c, payload) ==
  /\ CanCall(c)
  /\ ncalls' = ncalls + 1
  /\ IF IsRunning THEN Reject(c, "start", "HTTP400 running")
     ELSE IF ~ParsePayload(payload).ok THEN Reject(c, "start", "HTTP400 payload")
     ELSE RunnerStart(c, AsRaw(ParsePayload(payload).cfg))

\* POST /api/control/stop, and on_shutdown
ApiStop(c) ==
  /\ CanCall(c)
  /\ ncalls' = ncalls + 1
  /\ RunnerStop(c)

ApiRunOnceNoGuard(c, payload, w, cloud_ok) ==
  /\ CanCall(c)
  /\ ncalls' = ncalls + 1
  /\ IF ~ParsePayload(payload).ok THEN Reject(c, "run_once", "HTTP400 payload")
     ELSE RunnerRunOnce(c, AsRaw(ParsePayload(payload).cfg), w, cloud_ok)

\* POST /api/control/run-once
ApiRunOnce(c, payload, w, cloud_ok) ==
  /\ CanCall(c)
  /\ ncalls' = ncalls + 1
  /\ IF IsRunning THEN Reject(c, "run_once", "HTTP400 running")
     ELSE IF ~ParsePayload(payload).ok THEN Reject(c, "run_once", "HTTP400 payload")
     ELSE RunnerRunOnce(c, AsRaw(ParsePayload(payload).cfg), w, cloud_ok)

\* the Runner's methods called directly, with any argument
Start(c, raw) ==
  /\ CanCall(c)
  /\ ncalls' = ncalls + 1
  /\ RunnerStart(c, raw)

Stop(c) ==
  /\ CanCall(c)
  /\ ncalls' = ncalls + 1
  /\ RunnerStop(c)

RunOnce(c, raw, w, cloud_ok) ==
  /\ CanCall(c)
  /\ ncalls' = ncalls + 1
  /\ RunnerRunOnce(c, raw, w, cloud_ok)

(* ------------------------------------------------------------------ *)
(* Specifications                                                     *)
(* ------------------------------------------------------------------ *)
\* the steps of the browser session of a cycle, for the pages and item outcomes
\* the site can produce
Session(pages, outcomes) ==
  \E p \in Procs :
    \/ NavDone(p)
    \/ \E page \in pages : ScanDone(p, page)
    \/ \E page \in pages : \E outs \in [1..Len(page) -> outcomes] :
         ResolveDone(p, page, outs)
    \/ CloseDone(p)
    \/ CycleFail(p)

\* the tasks of the Runner
Tasks(wipes, clouds) ==
  \/ \E w \in wipes, k \in clouds : LoopTop(w, k)
  \/ \E w \in wipes, k \in clouds : LoopLocked(w, k)
  \/ LoopTick
  \/ \E c \in Callers : StopResume(c)
  \/ \E c \in Callers : \E w \in wipes, k \in clouds : RunOnceLocked(c, w, k)

NoWipe == {[hist |-> TRUE, dir |-> TRUE]}
SmallPages == {<<"A">>}

\* the service: requests arrive at the HTTP handlers in any order
Next ==
  \/ \E auto \in BOOLEAN : Boot(auto)
  \/ \E c \in Callers : \E payload \in Payloads : ApiStart(c, payload)
  \/ \E c \in Callers : ApiStop(c)
  \/ \E c \in Callers : \E payload \in Payloads : ApiRunOnce(c, payload, CHOOSE w \in NoWipe : TRUE, TRUE)
  \/ Tasks(NoWipe, {TRUE})
  \/ Session(SmallPages, {"ok"})

Spec == Init /\ [][Next]_vars

\* the Runner alone: its methods are called directly, in any order
RunnerInit == InitWith({DefaultEnv}, {NoConfig, CfgU}, TRUE)

RunnerNext ==
  \/ \E c \in Callers : \E raw \in RawConfigs : Start(c, raw)
  \/ \E c \in Callers : Stop(c)
  \/ \E c \in Callers : \E raw \in RawConfigs : RunOnce(c, raw, CHOOSE w \in NoWipe : TRUE, TRUE)
  \/ Tasks(NoWipe, {TRUE})
  \/ Session(SmallPages, {"ok"})

RunnerSpec == RunnerInit /\ [][RunnerNext]_vars

\* the cycles one after the other, for every process configuration and page
CycleInit == InitWith(Envs, {NoConfig}, TRUE)

CycleNext ==
  \/ \E c \in Callers :
       /\ \A d \in Callers : call[d].pc = "idle"
       /\ \E w \in WipeOutcomes, k \in BOOLEAN :
            ApiRunOnce(c, Dict(Str(U), Str(P), Int_(1)), w, k)
  \/ Session(Pages, Outcomes)

CycleSpec == CycleInit /\ [][CycleNext]_vars

(* ------------------------------------------------------------------ *)
(* The script's continuous loop: main() of photo_downloader.py        *)
(* ------------------------------------------------------------------ *)
\* iterations of `while True` begun in one behaviour
MaxIterations == 11
\* config.py of the script
MAX_CONNECTION_FAILURES == 10
CHECK_INTERVAL == 20
\* `await asyncio.sleep(10)` of the except clause
RetryWait == 10

\* main() at the top of its first iteration. `streak` counts the iterations in a
\* row that ended in the except clause, `wait` is the length of the sleep in
\* progress
MainStart ==
  [kind |-> "main", pc |-> "nav", iterations |-> 1, loop_count |-> 0,
   connection_failures |-> 0, streak |-> 0, wait |-> 0]

\* the other variables of a behaviour of main() alone
RunnerIdle ==
  UNCHANGED <<booted, env, runnerVars, lockVars, call, ncalls, cycleVars, storeVars>>

\* `except Exception` of the loop body
MainExcept ==
  LET failures == unit.connection_failures + 1 IN
  unit' = [unit EXCEPT !.connection_failures = failures,
                       !.streak = unit.streak + 1,
                       !.pc = IF failures >= MAX_CONNECTION_FAILURES THEN "exit"
                              ELSE "retry",
                       !.wait = IF failures >= MAX_CONNECTION_FAILURES THEN 0
                                ELSE RetryWait]

\* page.goto / page.reload and the render wait return: the failure count is reset
MainNavOk ==
  /\ unit.kind = "main"
  /\ unit.pc = "nav"
  /\ unit' = [unit EXCEPT !.pc = "scan", !.loop_count = unit.loop_count + 1,
                          !.connection_failures = 0]
  /\ RunnerIdle

\* page.goto / page.reload raises
MainNavFail ==
  /\ unit.kind = "main"
  /\ unit.pc = "nav"
  /\ MainExcept
  /\ RunnerIdle

\* the scan (or the resolver pass) raises
MainScanFail ==
  /\ unit.kind = "main"
  /\ unit.pc = "scan"
  /\ MainExcept
  /\ RunnerIdle

\* scan, downloads and save_history done: sleep for the check interval
MainCycleOk ==
  /\ unit.kind = "main"
  /\ unit.pc = "scan"
  /\ unit' = [unit EXCEPT !.pc = "sleep", !.streak = 0, !.wait = CHECK_INTERVAL]
  /\ RunnerIdle

\* the sleep returns: the next iteration begins
MainWake ==
  /\ unit.kind = "main"
  /\ unit.pc \in {"sleep", "retry"}
  /\ unit.iterations < MaxIterations
  /\ unit' = [unit EXCEPT !.pc = "nav", !.iterations = unit.iterations + 1, !.wait = 0]
  /\ RunnerIdle

MainInit == ServiceInit({DefaultEnv}, {NoConfig}, FALSE, {NoFile}) /\ unit = MainStart

MainNext == MainNavOk \/ MainNavFail \/ MainScanFail \/ MainCycleOk \/ MainWake

MainSpec == MainInit /\ [][MainNext]_vars

(* ------------------------------------------------------------------ *)
(* Runner.clear_download_history                                      *)
(* ------------------------------------------------------------------ *)
\* Runner.clear_download_history, called by handler c; `w` tells whether
\* os.remove / shutil.rmtree succeed
RunnerClear(c, w) ==
  /\ IF IsRunning
     THEN /\ call' = [call EXCEPT ![c] =
                        [op |-> "clear", pc |-> "idle", cfg |-> NoConfig,
                         ret |-> "RuntimeError"]]
          /\ UNCHANGED cycleVars
     ELSE /\ dedup_file' = IF dedup_file.exists /\ w.hist THEN NoFile ELSE dedup_file
          /\ local_files' = IF env.save_to_local /\ w.dir THEN {} ELSE local_files
          /\ cleared' = FALSE
          /\ call' = [call EXCEPT ![c] =
                        [op |-> "clear", pc |-> "idle", cfg |-> NoConfig,
                         ret |-> "cleared"]]
          /\ UNCHANGED <<loop_index, cyc>>
  /\ UNCHANGED <<unit, booted, env, runnerVars, lockVars, storeVars>>

Clear(c, w) ==
  /\ CanCall(c)
  /\ ncalls' = ncalls + 1
  /\ RunnerClear(c, w)

\* the Runner with its history operations, for every FRESH_START / SAVE_TO_LOCAL
\* setting, on a store that an earlier process may have filled
HistoryEnvs == [save_to_local : BOOLEAN, dropbox : {FALSE}, fresh_start : BOOLEAN]

HistoryInit == InitStore(HistoryEnvs, {NoConfig}, TRUE, {NoFile, HistoryFile({"B"})})

HistoryNext ==
  \/ \E c \in Callers : \E raw \in ValidRaw : Start(c, raw)
  \/ \E c \in Callers : Stop(c)
  \/ \E c \in Callers : \E raw \in ValidRaw : RunOnce(c, raw, CHOOSE w \in NoWipe : TRUE, TRUE)
  \/ \E c \in Callers : \E w \in WipeOutcomes : Clear(c, w)
  \/ Tasks(NoWipe, {TRUE})
  \/ Session(SmallPages, {"ok"})

HistorySpec == HistoryInit /\ [][HistoryNext]_vars

\* the same, with deletions of the fresh-start wipe that can fail
FreshStartNext ==
  \/ \E c \in Callers : \E raw \in ValidRaw : Start(c, raw)
  \/ \E c \in Callers : Stop(c)
  \/ \E c \in Callers : \E raw \in ValidRaw, w \in WipeOutcomes : RunOnce(c, raw, w, TRUE)
  \/ \E c \in Callers : \E w \in WipeOutcomes : Clear(c, w)
  \/ Tasks(WipeOutcomes, {TRUE})
  \/ Session(SmallPages, {"ok"})

FreshStartSpec == HistoryInit /\ [][FreshStartNext]_vars

(* ------------------------------------------------------------------ *)
(* One cycle over every page and every item outcome                   *)
(* ------------------------------------------------------------------ *)
\* the first cycle of a process, run over a stored history, for every process
\* configuration, page and item outcome
ItemInit == InitStore(Envs, {NoConfig}, TRUE, {NoFile, HistoryFile({"B"})})

ItemNext ==
  \/ \E c \in Callers :
       /\ \A p \in Procs : cyc[p].phase = "none"
       /\ loop_index = 0
       /\ \E raw \in ValidRaw, w \in NoWipe, k \in BOOLEAN : RunOnce(c, raw, w, k)
  \/ Session(Pages, Outcomes)

ItemSpec == ItemInit /\ [][ItemNext]_vars

(* ------------------------------------------------------------------ *)
(* PhotoDownloader.download_photo, attempt by attempt                 *)
(* ------------------------------------------------------------------ *)
\* MAX_DOWNLOAD_RETRIES of config.py
MAX_DOWNLOAD_RETRIES == 5

\* the values of MAX_DOWNLOAD_RETRIES the environment is given here
RetryCeilings == 1..MAX_DOWNLOAD_RETRIES

\* range(1, MAX_DOWNLOAD_RETRIES + 1), with one attempt more
AttemptsOneMore(max) == 1..(max + 1)

\* range(1, MAX_DOWNLOAD_RETRIES + 1)
Attempts(max) == 1..max

\* the locals of a call of download_photo: `fetches` and `uploads` hold the
\* outcome of every requests.get and files_upload made so far
DownloadStart(max, client) ==
  [kind |-> "download", pc |-> "fetch", max |-> max, attempt |-> 1,
   fetches |-> <<>>, uploads |-> <<>>, photo_data |-> FALSE,
   dropbox_client |-> client, local |-> "none", ret |-> "none"]

\* download_photo returns
DownloadReturn(u, ret) == [u EXCEPT !.pc = "done", !.ret = ret]

\* step 3 of download_photo, after the upload or without cloud sink
DownloadToLocal(u) ==
  IF env.save_to_local THEN [u EXCEPT !.pc = "local"] ELSE DownloadReturn(u, "True")

\* the statements after the fetch loop
DownloadAfterFetch(u) ==
  IF ~u.photo_data THEN DownloadReturn(u, "False")
  ELSE IF u.dropbox_client
       THEN IF 1 \in Attempts(u.max) THEN [u EXCEPT !.pc = "upload", !.attempt = 1]
            ELSE DownloadReturn(u, "False")
       ELSE DownloadToLocal(u)

\* one pass of the fetch loop: requests.get and the read of the body
FetchAttempt(ok) ==
  /\ unit.kind = "download"
  /\ unit.pc = "fetch"
  /\ LET u == [unit EXCEPT !.fetches = Append(unit.fetches, ok)] IN
     unit' = IF ok THEN DownloadAfterFetch([u EXCEPT !.photo_data = TRUE])
             ELSE IF unit.attempt < unit.max
                  THEN IF unit.attempt + 1 \in Attempts(unit.max)
                       THEN [u EXCEPT !.attempt = unit.attempt + 1]
                       ELSE DownloadAfterFetch(u)
                  ELSE DownloadReturn(u, "False")
  /\ RunnerIdle

\* one pass of the loop of _upload_to_dropbox: files_upload
UploadAttempt(ok) ==
  /\ unit.kind = "download"
  /\ unit.pc = "upload"
  /\ LET u == [unit EXCEPT !.uploads = Append(unit.uploads, ok)] IN
     unit' = IF ok THEN DownloadToLocal(u)
             ELSE IF unit.attempt + 1 \in Attempts(unit.max)
                  THEN [u EXCEPT !.attempt = unit.attempt + 1]
                  ELSE DownloadReturn(u, "False")
  /\ RunnerIdle

\* _save_to_local: its result is not read
LocalSave(ok) ==
  /\ unit.kind = "download"
  /\ unit.pc = "local"
  /\ unit' = DownloadReturn([unit EXCEPT !.local = IF ok THEN "saved" ELSE "failed"],
                            "True")
  /\ RunnerIdle

DownloadInit ==
  /\ ServiceInit(Envs, {NoConfig}, FALSE, {NoFile})
  /\ \E max \in RetryCeilings : unit = DownloadStart(max, env.dropbox)

DownloadNext ==
  \/ \E ok \in BOOLEAN : FetchAttempt(ok)
  \/ \E ok \in BOOLEAN : UploadAttempt(ok)
  \/ \E ok \in BOOLEAN : LocalSave(ok)

DownloadSpec == DownloadInit /\ [][DownloadNext]_vars

(* ------------------------------------------------------------------ *)
(* The process killed inside DownloadHistory.save_history             *)
(* ------------------------------------------------------------------ *)
\* the memory of a new process, before on_startup: the files are what the
\* killed process left
NewProcess ==
  /\ booted' = FALSE
  /\ task' = "none"
  /\ loopPc' = "end"
  /\ ticks' = 0
  /\ stop_event' = FALSE
  /\ active_config' = NoConfig
  /\ lockHolder' = Free
  /\ lockQueue' = <<>>
  /\ call' = [c \in Callers |-> NoCall]
  /\ loop_index' = 0
  /\ cleared' = FALSE
  /\ cyc' = [p \in Procs |-> NoCycle]
  /\ dl_log' = <<>>
  /\ UNCHANGED <<unit, env, rt_file, ncalls, status_file, history_file>>

\* what a kill between open(history_file, 'w') and the end of the write can
\* leave on disk: an empty or partial file, or the whole of the new content
KilledSaves(downloads) == {Truncated, SaveHistory(downloads)}

\* the process is killed in the save_history of a cycle without new photo
KilledInScanSave(p, page) ==
  /\ cyc[p].phase = "scan"
  /\ FilterUnknown(page, cyc[p].downloads) = <<>>
  /\ dedup_file' \in KilledSaves(cyc[p].downloads)
  /\ UNCHANGED <<dropbox_files, local_files>>
  /\ NewProcess

\* the process is killed in the save_history that follows the downloads
KilledInResolveSave(p, page, outs) ==
  /\ cyc[p].phase = "resolve"
  /\ LET photos == Resolved(page, outs, Range(cyc[p].unknown))
         r == Downloads(photos, cyc[p].dropbox,
                [downloads |-> cyc[p].downloads, cloud |-> dropbox_files,
                 local |-> local_files, ok |-> 0, failed |-> 0, log |-> <<>>])
     IN /\ dedup_file' \in KilledSaves(r.downloads)
        /\ dropbox_files' = r.cloud
        /\ local_files' = r.local
  /\ NewProcess

CrashInit == InitStore({DefaultEnv}, {NoConfig}, TRUE, {NoFile, HistoryFile({"B"})})

CrashNext ==
  \/ Boot(FALSE)
  \/ \E c \in Callers :
       /\ \A d \in Callers : call[d].pc = "idle"
       /\ \E raw \in ValidRaw, w \in NoWipe : RunOnce(c, raw, w, TRUE)
  \/ Session(SmallPages, {"ok"})
  \/ \E p \in Procs : \E page \in SmallPages : KilledInScanSave(p, page)
  \/ \E p \in Procs : \E page \in SmallPages :
       \E outs \in [1..Len(page) -> {"ok"}] : KilledInResolveSave(p, page, outs)

CrashSpec == CrashInit /\ [][CrashNext]_vars

(* ------------------------------------------------------------------ *)
(* DownloadHistory: the store in memory and its JSON file             *)
(* ------------------------------------------------------------------ *)
\* a Python dict is a set of entries with one entry for a key
DictKeys(d) == {e.key : e \in d}

\* d[key] = value, adding a second entry for a key already present
DictSetAppends(d, key, value) == d \cup {[key |-> key, value |-> value]}

\* d[key] = value
DictSet(d, key, value) ==
  {e \in d : e.key # key} \cup {[key |-> key, value |-> value]}

\* the values of a download record
Filenames == {"a.jpg", "b.jpg"}
ThumbnailUrls == {"//cdn/t.jpg~tplv"}
Times == {"10:30:00", "10:30:01"}
RecordValues ==
  [original_filename : Filenames, thumbnail_url : ThumbnailUrls, download_time : Times]

\* the dicts over the fingerprints
RECURSIVE DictsOver(_)
DictsOver(keys) ==
  IF keys = {} THEN {{}}
  ELSE LET k == CHOOSE x \in keys : TRUE
           rest == DictsOver(keys \ {k})
       IN rest \cup {DictSet(d, k, v) : d \in rest, v \in RecordValues}

\* the value of the "downloads" member of a document
AbsentMember == [t |-> "absent", entries |-> {}]
NullMember == [t |-> "null", entries |-> {}]
DictMember(d) == [t |-> "dict", entries |-> d]

\* a version written by an older release
StoreVersionOld == "1.0"

\* DownloadHistory.version, written by save_history
StoreVersion == "2.0"

\* the file at history_file: absent, not readable, not JSON, a JSON array, or a
\* JSON object with its "version" and "downloads" members
StoreFile(kind, version, downloads) ==
  [kind |-> kind, version |-> version, downloads |-> downloads]
Versions == {"absent", "1.0", "2.0", "number 2.0"}
StoreFiles ==
  {StoreFile(k, "absent", AbsentMember) : k \in {"missing", "unreadable", "malformed", "array"}}
  \cup {StoreFile("object", v, m) :
          v \in Versions,
          m \in {AbsentMember, NullMember} \cup {DictMember(d) : d \in DictsOver(Fingerprints)}}

\* json.dump(data, f) of save_history
JsonDump(downloads) == StoreFile("object", StoreVersion, DictMember(downloads))

\* the body of the try of _load_history: `exc` tells that a statement raised,
\* `downloads` is self.downloads when the body is left
TryLoad(file, before) ==
  IF file.kind \in {"unreadable", "malformed", "array"}
  THEN [exc |-> TRUE, downloads |-> before]
  ELSE LET version == IF file.version = "absent" THEN "unknown" ELSE file.version IN
       IF version # "2.0" THEN [exc |-> FALSE, downloads |-> {}]
       ELSE IF file.downloads.t = "absent" THEN [exc |-> FALSE, downloads |-> {}]
       ELSE IF file.downloads.t = "null" THEN [exc |-> TRUE, downloads |-> {}]
       ELSE [exc |-> FALSE, downloads |-> file.downloads.entries]

\* a try without except clause
ExceptNothing(r) == [raised |-> r.exc, downloads |-> r.downloads]

\* except Exception: self.downloads = {}
ExceptException(r) ==
  IF r.exc THEN [raised |-> FALSE, downloads |-> {}]
  ELSE [raised |-> FALSE, downloads |-> r.downloads]

\* DownloadHistory._load_history on a new object (self.downloads = {})
LoadHistoryFile(file) ==
  IF file.kind = "missing" THEN [raised |-> FALSE, downloads |-> {}]
  ELSE ExceptException(TryLoad(file, {}))

\* DownloadHistory.is_downloaded_by_fingerprint
IsDownloadedByFingerprint(downloads, fingerprint) == fingerprint \in DictKeys(downloads)

\* no DownloadHistory object yet
StoreStart(file) ==
  [kind |-> "history", file |-> file, downloads |-> {}, raised |-> FALSE,
   last |-> "none", prev |-> "none", key |-> "none", prevkey |-> "none"]

\* DownloadHistory(history_file): a new object loads the file
HistoryNew ==
  /\ unit.kind = "history"
  /\ ~unit.raised
  /\ LET r == LoadHistoryFile(unit.file) IN
     unit' = [unit EXCEPT !.downloads = r.downloads, !.raised = r.raised,
                          !.prev = unit.last, !.prevkey = unit.key, !.last = "load", !.key = "none"]
  /\ RunnerIdle

\* DownloadHistory.add_download_record
AddDownloadRecord(fingerprint, value) ==
  /\ unit.kind = "history"
  /\ unit.last # "none"
  /\ ~unit.raised
  /\ unit' = [unit EXCEPT !.downloads = DictSet(unit.downloads, fingerprint, value),
                          !.prev = unit.last, !.prevkey = unit.key, !.last = "add", !.key = fingerprint]
  /\ RunnerIdle

\* DownloadHistory.save_history, the file being writable
HistorySave ==
  /\ unit.kind = "history"
  /\ unit.last # "none"
  /\ ~unit.raised
  /\ unit' = [unit EXCEPT !.file = JsonDump(unit.downloads),
                          !.prev = unit.last, !.prevkey = unit.key, !.last = "save", !.key = "none"]
  /\ RunnerIdle

StoreInit ==
  /\ ServiceInit({DefaultEnv}, {NoConfig}, FALSE, {NoFile})
  /\ \E file \in StoreFiles : unit = StoreStart(file)

StoreNext ==
  \/ HistoryNew
  \/ \E fp \in Fingerprints, v \in RecordValues : AddDownloadRecord(fp, v)
  \/ HistorySave

StoreSpec == StoreInit /\ [][StoreNext]_vars

(* ------------------------------------------------------------------ *)
(* PhotoExtractor._extract_filename_from_thumbnail                    *)
(* ------------------------------------------------------------------ *)
\* length of the thumbnail URLs
MaxUrlLen == 4

UrlChars == {"/", "?", "~", "a", "b"}
Urls == UNION {[1..n -> UrlChars] : n \in 0..MaxUrlLen}

\* s.startswith(prefix)
StartsWith(s, prefix) ==
  Len(s) >= Len(prefix) /\ SubSeq(s, 1, Len(prefix)) = prefix

\* ch in s
Contains(s, ch) == \E i \in DOMAIN s : s[i] = ch

RECURSIVE SplitFirst(_, _)
\* s.split(ch)[0]
SplitFirst(s, ch) ==
  IF s = <<>> \/ Head(s) = ch THEN <<>> ELSE <<Head(s)>> \o SplitFirst(Tail(s), ch)

RECURSIVE SplitLast(_, _)
\* s.split(ch)[-1]
SplitLast(s, ch) ==
  IF s = <<>> \/ s[Len(s)] = ch THEN <<>>
  ELSE SplitLast(SubSeq(s, 1, Len(s) - 1), ch) \o <<s[Len(s)]>>

\* a path split that takes the first segment
FirstSegment(path) == SplitFirst(path, "/")

\* path.split('/')[-1]
LastSegment(path) == SplitLast(path, "/")

Https == <<"h", "t", "t", "p", "s", ":">>

\* the readings of int(time.time()) and of random.randint(1000, 9999)
Clock == {"t1", "t2"}
RandomTokens == {"r1", "r2"}
NoIndex == "None"
FallbackIndexes == {NoIndex, "0"}

Filename(s) == [kind |-> "filename", s |-> s, time |-> "", seed |-> ""]

\* f"fallback_{int(time.time())}_{fallback_index}", or with the random number
Fallback(index, now, rnd) ==
  [kind |-> "fallback", s |-> <<>>, time |-> now,
   seed |-> IF index # NoIndex THEN index ELSE rnd]

\* _extract_filename_from_thumbnail(url, fallback_index) at time `now`
ExtractFilenameFromThumbnail(url, index, now, rnd) ==
  IF url = <<>> THEN Fallback(index, now, rnd)
  ELSE LET fixed == IF StartsWith(url, <<"/", "/">>) THEN Https \o url ELSE url
           noquery == SplitFirst(fixed, "?")
           path == IF Contains(noquery, "~") THEN SplitFirst(noquery, "~") ELSE noquery
           filename == LastSegment(path)
       IN IF filename = <<>> THEN Fallback(index, now, rnd) ELSE Filename(filename)

\* two calls to come on one thumbnail URL
FingerprintStart(url, index) ==
  [kind |-> "fingerprint", url |-> url, index |-> index, results |-> <<>>]

\* one call of the function
FingerprintCall(now, rnd) ==
  /\ unit.kind = "fingerprint"
  /\ Len(unit.results) < 2
  /\ unit' = [unit EXCEPT !.results =
                Append(unit.results,
                       ExtractFilenameFromThumbnail(unit.url, unit.index, now, rnd))]
  /\ RunnerIdle

FingerprintInit ==
  /\ ServiceInit({DefaultEnv}, {NoConfig}, FALSE, {NoFile})
  /\ \E url \in Urls, index \in FallbackIndexes : unit = FingerprintStart(url, index)

FingerprintNext == \E now \in Clock, rnd \in RandomTokens : FingerprintCall(now, rnd)

FingerprintSpec == FingerprintInit /\ [][FingerprintNext]_vars

(* ------------------------------------------------------------------ *)
(* PhotoExtractor.extract_photo_urls_by_fingerprints, item by item    *)
(* ------------------------------------------------------------------ *)
\* items the gallery shows during the resolver pass
MaxVisible == 3

VisiblePages == UNION {[1..n -> Fingerprints] : n \in 0..MaxVisible}
TargetSets == {{}, {"A"}, {"A", "B"}}

\* what the page does to the steps of one item: the read of the thumbnail src
\* raises, the click raises, the wait for the link times out, the read of href
\* raises, the link has no href, or the link is read
ItemOutcomes == {"src_fail", "click_fail", "link_fail", "href_fail", "no_href", "ok"}

\* a resolver that opens every item
InTargetSetAlways(fingerprint, targets) == TRUE

\* fingerprint in target_set
InTargetSet(fingerprint, targets) == fingerprint \in targets

ResolverStart(page, targets) ==
  [kind |-> "resolver", page |-> page, targets |-> targets, idx |-> 1,
   pc |-> IF targets = {} THEN "done" ELSE "items",
   log |-> <<>>, photo_urls |-> <<>>, raised |-> FALSE]

\* what the resolver did with one item
ItemLog(fp, clicked, opened, escapes, resolved, failed) ==
  [fp |-> fp, clicked |-> clicked, opened |-> opened, escapes |-> escapes,
   resolved |-> resolved, failed |-> failed]

\* the body of the try for one item: `exc` tells that a statement raised
TryItem(fp, targets, out, escape_ok) ==
  IF out = "src_fail" THEN [exc |-> TRUE, log |-> ItemLog(fp, FALSE, FALSE, 0, FALSE, TRUE)]
  ELSE IF ~InTargetSet(fp, targets)
  THEN [exc |-> FALSE, log |-> ItemLog(fp, FALSE, FALSE, 0, FALSE, FALSE)]
  ELSE IF out = "click_fail"
  THEN [exc |-> TRUE, log |-> ItemLog(fp, TRUE, FALSE, 0, FALSE, TRUE)]
  ELSE IF out \in {"link_fail", "href_fail"}
  THEN [exc |-> TRUE, log |-> ItemLog(fp, TRUE, TRUE, 0, FALSE, TRUE)]
  ELSE [exc |-> ~escape_ok, log |-> ItemLog(fp, TRUE, TRUE, 1, out = "ok", ~escape_ok)]

\* an except clause that lets the exception leave the resolver
ExceptReraises(r) == [raised |-> r.exc, log |-> r.log]

\* except Exception: press Escape, swallowing its failure, and continue
ExceptItem(r) ==
  IF r.exc THEN [raised |-> FALSE, log |-> [r.log EXCEPT !.escapes = r.log.escapes + 1]]
  ELSE [raised |-> FALSE, log |-> r.log]

\* one pass of the loop over photo_items
ResolverItem(out, escape_ok) ==
  /\ unit.kind = "resolver"
  /\ unit.pc = "items"
  /\ unit.idx <= Len(unit.page)
  /\ LET r == ExceptItem(TryItem(unit.page[unit.idx], unit.targets, out, escape_ok)) IN
     unit' = [unit EXCEPT
                !.log = Append(unit.log, r.log),
                !.photo_urls = IF r.log.resolved THEN Append(unit.photo_urls, r.log.fp)
                               ELSE unit.photo_urls,
                !.raised = r.raised,
                !.idx = IF r.raised THEN unit.idx ELSE unit.idx + 1,
                !.pc = IF r.raised THEN "done" ELSE "items"]
  /\ RunnerIdle

\* the loop is over: return photo_urls
ResolverReturn ==
  /\ unit.kind = "resolver"
  /\ unit.pc = "items"
  /\ unit.idx > Len(unit.page)
  /\ unit' = [unit EXCEPT !.pc = "done"]
  /\ RunnerIdle

ResolverInit ==
  /\ ServiceInit({DefaultEnv}, {NoConfig}, FALSE, {NoFile})
  /\ \E page \in VisiblePages, targets \in TargetSets : unit = ResolverStart(page, targets)

ResolverNext ==
  \/ \E out \in ItemOutcomes, escape_ok \in BOOLEAN : ResolverItem(out, escape_ok)
  \/ ResolverReturn

ResolverSpec == ResolverInit /\ [][ResolverNext]_vars

(* ------------------------------------------------------------------ *)
(* scroll_to_load_all                                                 *)
(* ------------------------------------------------------------------ *)
\* MAX_SCROLL_ATTEMPTS the process is given
MaxScroll == 6
\* the largest number of items the gallery shows
MaxCount == 2
\* consecutive observations without growth that end the scrolling
StallLimit == 3

\* a test that takes an equal count for growth
GrewOrSame(current, last) == current >= last

\* current_photo_count > last_photo_count
Grew(current, last) == current > last

\* the locals of scroll_to_load_all; `counts` holds the observed item counts
ScrollStart ==
  [kind |-> "scroll", pc |-> "loop", last_photo_count |-> 0, scroll_count |-> 0,
   no_change_count |-> 0, counts |-> <<>>]

\* a cap whose reaching raises out of the scan
ScrollCapRaises ==
  /\ unit.kind = "scroll"
  /\ unit.pc = "loop"
  /\ unit.scroll_count >= MaxScroll
  /\ unit' = [unit EXCEPT !.pc = "raised"]
  /\ RunnerIdle

\* a pass that tracks the count of the previous observation
ScrollObservePrevious(current) ==
  /\ unit.kind = "scroll"
  /\ unit.pc = "loop"
  /\ unit.scroll_count < MaxScroll
  /\ LET u == [unit EXCEPT !.scroll_count = unit.scroll_count + 1,
                           !.counts = Append(unit.counts, current),
                           !.last_photo_count = current]
     IN unit' = IF Grew(current, unit.last_photo_count)
                THEN [u EXCEPT !.no_change_count = 0]
                ELSE [u EXCEPT !.no_change_count = unit.no_change_count + 1,
                               !.pc = IF unit.no_change_count + 1 >= StallLimit
                                      THEN "done" ELSE "loop"]
  /\ RunnerIdle

\* one pass of the while loop: scroll, wait, count the items
ScrollObserve(current) ==
  /\ unit.kind = "scroll"
  /\ unit.pc = "loop"
  /\ unit.scroll_count < MaxScroll
  /\ LET u == [unit EXCEPT !.scroll_count = unit.scroll_count + 1,
                           !.counts = Append(unit.counts, current)]
     IN unit' = IF Grew(current, unit.last_photo_count)
                THEN [u EXCEPT !.last_photo_count = current, !.no_change_count = 0]
                ELSE [u EXCEPT !.no_change_count = unit.no_change_count + 1,
                               !.pc = IF unit.no_change_count + 1 >= StallLimit
                                      THEN "done" ELSE "loop"]
  /\ RunnerIdle

\* the while condition fails: the iteration cap is reached
ScrollCapReached ==
  /\ unit.kind = "scroll"
  /\ unit.pc = "loop"
  /\ unit.scroll_count >= MaxScroll
  /\ unit' = [unit EXCEPT !.pc = "done"]
  /\ RunnerIdle

ScrollInit ==
  /\ ServiceInit({DefaultEnv}, {NoConfig}, FALSE, {NoFile})
  /\ unit = ScrollStart

ScrollNext ==
  \/ \E current \in 0..MaxCount : ScrollObserve(current)
  \/ ScrollCapReached

ScrollSpec == ScrollInit /\ [][ScrollNext]_vars

(* ------------------------------------------------------------------ *)
(* PhotoExtractor._extract_filename_from_url                          *)
(* ------------------------------------------------------------------ *)
\* url.split('/')[-1].split('?')[0], then the part before the first '~'
ExtractFilenameFromUrl(url) ==
  LET filename == SplitFirst(SplitLast(url, "/"), "?")
  IN IF Contains(filename, "~") THEN SplitFirst(filename, "~") ELSE filename

\* one call to come on a resolved URL
FilenameStart(url) == [kind |-> "filename", url |-> url, pc |-> "call", result |-> <<>>]

\* the call returns
FilenameCall ==
  /\ unit.kind = "filename"
  /\ unit.pc = "call"
  /\ unit' = [unit EXCEPT !.pc = "done", !.result = ExtractFilenameFromUrl(unit.url)]
  /\ RunnerIdle

FilenameInit ==
  /\ ServiceInit({DefaultEnv}, {NoConfig}, FALSE, {NoFile})
  /\ \E url \in Urls : unit = FilenameStart(url)

FilenameNext == FilenameCall

FilenameSpec == FilenameInit /\ [][FilenameNext]_vars

(* ------------------------------------------------------------------ *)
(* PhotoExtractor.extract_fingerprints_fast                           *)
(* ------------------------------------------------------------------ *)
UrlA == <<"/", "/", "a", "~", "b">>
UrlB == <<"b", "?", "a">>

\* what the read of an item's img src gives: a thumbnail URL, the empty string,
\* None, or an exception
ItemSources ==
  {[state |-> "url", url |-> UrlA], [state |-> "url", url |-> UrlB],
   [state |-> "empty", url |-> <<>>], [state |-> "missing", url |-> <<>>],
   [state |-> "unreadable", url |-> <<>>]}

\* the lists page.locator(PHOTO_ITEM_SELECTOR).all() can give
ScanPages == UNION {[1..n -> ItemSources] : n \in 0..MaxVisible}

\* the counts one more observation of the scrolling can show: none, the tracked
\* count again, or one item more
GalleryCounts ==
  IF unit.kind = "scroll"
  THEN {0, unit.last_photo_count, unit.last_photo_count + 1}
  ELSE {}

\* scroll_to_load_all has returned; the items are enumerated
ScanEnumerate(items) ==
  /\ unit.kind = "scroll"
  /\ unit.pc = "done"
  /\ unit' = [kind |-> "scan", pc |-> "loop", photo_items |-> items, idx |-> 0,
              fingerprints |-> <<>>]
  /\ RunnerIdle

\* the entry the loop body appends for item idx
ScanEntry(item, idx, now, rnd) ==
  IF item.state = "url"
  THEN [index |-> idx,
        fingerprint |-> ExtractFilenameFromThumbnail(item.url, ToString(idx), now, rnd),
        thumbnail_url |-> item.url]
  ELSE [index |-> idx,
        fingerprint |-> ExtractFilenameFromThumbnail(<<>>, ToString(idx), now, rnd),
        thumbnail_url |-> <<>>]

\* a loop body whose except clause only logs
ScanItemSkipsUnreadable(now, rnd) ==
  /\ unit.kind = "scan"
  /\ unit.pc = "loop"
  /\ unit.idx < Len(unit.photo_items)
  /\ LET item == unit.photo_items[unit.idx + 1]
     IN unit' = [unit EXCEPT
                   !.idx = unit.idx + 1,
                   !.fingerprints =
                      IF item.state = "unreadable" THEN unit.fingerprints
                      ELSE Append(unit.fingerprints,
                                  ScanEntry(item, unit.idx, now, rnd))]
  /\ RunnerIdle

\* one pass of the for loop
ScanItem(now, rnd) ==
  /\ unit.kind = "scan"
  /\ unit.pc = "loop"
  /\ unit.idx < Len(unit.photo_items)
  /\ unit' = [unit EXCEPT
                !.idx = unit.idx + 1,
                !.fingerprints =
                   Append(unit.fingerprints,
                          ScanEntry(unit.photo_items[unit.idx + 1], unit.idx, now, rnd))]
  /\ RunnerIdle

\* the list is returned
ScanReturn ==
  /\ unit.kind = "scan"
  /\ unit.pc = "loop"
  /\ unit.idx = Len(unit.photo_items)
  /\ unit' = [unit EXCEPT !.pc = "done"]
  /\ RunnerIdle

ScanInit == ScrollInit

ScanNext ==
  \/ \E current \in GalleryCounts : ScrollObserve(current)
  \/ ScrollCapReached
  \/ \E items \in ScanPages : ScanEnumerate(items)
  \/ \E now \in Clock, rnd \in RandomTokens : ScanItem(now, rnd)
  \/ ScanReturn

ScanSpec == ScanInit /\ [][ScanNext]_vars

\* the pages of readable items
LoadedPages == {[i \in 1..n |-> [state |-> "url", url |-> UrlA]] : n \in 0..MaxVisible}

\* the scrolling in full, followed by the scan of a page of readable items
ScrollScanNext ==
  \/ \E current \in GalleryCounts : ScrollObserve(current)
  \/ ScrollCapReached
  \/ \E items \in LoadedPages : ScanEnumerate(items)
  \/ \E now \in Clock, rnd \in RandomTokens : ScanItem(now, rnd)
  \/ ScanReturn

\* every await of the scan returns or raises within its timeout, so the
\* coroutine always takes its next step
ScrollScanSpec == ScanInit /\ [][ScrollScanNext]_vars /\ WF_vars(ScrollScanNext)

(* ------------------------------------------------------------------ *)
(* The cloud sink of a cycle: init_dropbox_client, ensure_dropbox_path *)
(* ------------------------------------------------------------------ *)
\* the credentials the process is given: a refresh token with app key and
\* secret, an access token, or none
Credentials == {"refresh", "access", "none"}

\* the locals of the sink initialisation of _run_cycle, cycle after cycle;
\* `failure` tells that the verification or the path check of this cycle failed
CloudStart(creds) ==
  [kind |-> "cloud", creds |-> creds, pc |-> "init", cycle |-> 1,
   dropbox_client |-> FALSE, tried |-> FALSE, failure |-> FALSE, results |-> <<>>]

\* init_dropbox_client: the client is built and users_get_current_account
\* answers, raises AuthError, or raises something else
CloudInitClient(out) ==
  /\ unit.kind = "cloud"
  /\ unit.pc = "init"
  /\ unit.creds # "none"
  /\ unit' = [unit EXCEPT !.tried = TRUE,
                          !.dropbox_client = (out = "ok"),
                          !.failure = (out # "ok"),
                          !.pc = IF out = "ok" THEN "metadata" ELSE "session"]
  /\ RunnerIdle

\* no credentials: dropbox_client stays None
CloudNoCredentials ==
  /\ unit.kind = "cloud"
  /\ unit.pc = "init"
  /\ unit.creds = "none"
  /\ unit' = [unit EXCEPT !.pc = "session"]
  /\ RunnerIdle

\* ensure_dropbox_path, files_get_metadata: the path exists, the call raises
\* ApiError with a GetMetadataError, another ApiError, or something else
CloudGetMetadata(out) ==
  /\ unit.kind = "cloud"
  /\ unit.pc = "metadata"
  /\ unit' = IF out = "exists" THEN [unit EXCEPT !.pc = "session"]
             ELSE IF out = "not_found" THEN [unit EXCEPT !.pc = "create"]
             ELSE [unit EXCEPT !.dropbox_client = FALSE, !.failure = TRUE,
                               !.pc = "session"]
  /\ RunnerIdle

\* ensure_dropbox_path, files_create_folder_v2 inside the ApiError handler: the
\* folder is created, the call raises ApiError, or it raises something else,
\* which no clause of the function catches and which leaves _run_cycle
CloudCreateFolder(out) ==
  /\ unit.kind = "cloud"
  /\ unit.pc = "create"
  /\ unit' = IF out = "created" THEN [unit EXCEPT !.pc = "session"]
             ELSE IF out = "api_error"
             THEN [unit EXCEPT !.dropbox_client = FALSE, !.failure = TRUE,
                               !.pc = "session"]
             ELSE [unit EXCEPT !.failure = TRUE, !.pc = "raised"]
  /\ RunnerIdle

\* the browser session of the cycle runs to its result; the next cycle begins
CloudSession(ok) ==
  /\ unit.kind = "cloud"
  /\ unit.pc = "session"
  /\ LET res == [tried |-> unit.tried, failure |-> unit.failure,
                 dropbox_enabled |-> unit.dropbox_client, success |-> ok]
     IN unit' = [unit EXCEPT !.results = Append(unit.results, res),
                             !.cycle = IF unit.cycle < MaxCycles
                                       THEN unit.cycle + 1 ELSE unit.cycle,
                             !.pc = IF unit.cycle < MaxCycles THEN "init" ELSE "done",
                             !.dropbox_client = FALSE,
                             !.tried = FALSE,
                             !.failure = FALSE]
  /\ RunnerIdle

CloudInit ==
  /\ ServiceInit({DefaultEnv}, {NoConfig}, FALSE, {NoFile})
  /\ \E creds \in Credentials : unit = CloudStart(creds)

CloudNext ==
  \/ \E out \in {"ok", "auth_error", "error"} : CloudInitClient(out)
  \/ CloudNoCredentials
  \/ \E out \in {"exists", "not_found", "api_error", "error"} : CloudGetMetadata(out)
  \/ \E out \in {"created", "api_error", "error"} : CloudCreateFolder(out)
  \/ \E ok \in BOOLEAN : CloudSession(ok)

CloudSpec == CloudInit /\ [][CloudNext]_vars

(* ------------------------------------------------------------------ *)
(* github_actions_runner.run_single_cycle, run after run              *)
(* ------------------------------------------------------------------ *)
\* the minutes the clock runs over, and the runs of the driver
MaxMinutes == 3
MaxRuns == 2

\* the values of 'interval', in minutes
Intervals == {1, 2}

\* lastRunTime of runtime-config.json: absent, an ISO timestamp (`at`, in
\* minutes), or a string that datetime.fromisoformat rejects
NoLastRun == [kind |-> "none", at |-> 0]
LastRunAt(t) == [kind |-> "iso", at |-> t]
BadLastRun == [kind |-> "invalid", at |-> 0]

\* the contents of runtime-config.json the driver can find
DriverConfigs ==
  [enabled : BOOLEAN, lastRunTime : {NoLastRun, LastRunAt(0), BadLastRun},
   interval : Intervals, clearHistory : BOOLEAN, lastRunSuccess : BOOLEAN]

\* RuntimeConfig.should_run at time `now`
ShouldRun(config, now) ==
  IF ~config.enabled THEN FALSE
  ELSE IF config.lastRunTime.kind = "iso"
       THEN ~(now - config.lastRunTime.at < config.interval)
       ELSE TRUE

\* RuntimeConfig.update_after_run(success) at time `now`
UpdateAfterRun(config, success, now) ==
  [config EXCEPT !.lastRunTime = LastRunAt(now), !.clearHistory = FALSE,
                 !.lastRunSuccess = success]

\* what the last run did: ran the cycle, deleted the history file, ended with an
\* exception that left run_single_cycle
NoRun == [cycle |-> FALSE, wiped |-> FALSE, raised |-> FALSE]

\* the files and the clock the driver runs over
DriverStart(config, history) ==
  [kind |-> "driver", config |-> config, history |-> history, now |-> 0,
   runs |-> 0, last |-> NoRun]

\* a minute passes
DriverTick ==
  /\ unit.kind = "driver"
  /\ unit.now < MaxMinutes
  /\ unit' = [unit EXCEPT !.now = unit.now + 1]
  /\ RunnerIdle

\* the web panel asks for a cleared history
DriverClearRequest ==
  /\ unit.kind = "driver"
  /\ ~unit.config.clearHistory
  /\ unit' = [unit EXCEPT !.config.clearHistory = TRUE]
  /\ RunnerIdle

\* one run of run_single_cycle: `unlink_ok` tells whether history_file.unlink()
\* succeeds, `setup_ok` whether the history, the sink and the downloader are set
\* up without an exception, `success` whether the browser session reaches its
\* end, `saved` whether it reached history.save_history()
DriverRun(unlink_ok, setup_ok, success, saved) ==
  /\ unit.kind = "driver"
  /\ unit.runs < MaxRuns
  /\ LET config == unit.config
         wipe == config.clearHistory /\ unit.history
         u == [unit EXCEPT !.runs = unit.runs + 1]
     IN unit' =
          IF ~ShouldRun(config, unit.now) THEN [u EXCEPT !.last = NoRun]
          ELSE IF wipe /\ ~unlink_ok
          THEN [u EXCEPT !.last = [cycle |-> FALSE, wiped |-> FALSE, raised |-> TRUE]]
          ELSE IF ~setup_ok
          THEN [u EXCEPT !.history = unit.history /\ ~wipe,
                         !.last = [cycle |-> FALSE, wiped |-> wipe, raised |-> TRUE]]
          ELSE [u EXCEPT !.history = (unit.history /\ ~wipe) \/ saved,
                         !.config = UpdateAfterRun(config, success, unit.now),
                         !.last = [cycle |-> TRUE, wiped |-> wipe, raised |-> FALSE]]
  /\ RunnerIdle

DriverInit ==
  /\ ServiceInit({DefaultEnv}, {NoConfig}, FALSE, {NoFile})
  /\ \E config \in DriverConfigs, history \in BOOLEAN :
       unit = DriverStart(config, history)

DriverNext ==
  \/ DriverTick
  \/ DriverClearRequest
  \/ \E unlink_ok, setup_ok, success, saved \in BOOLEAN :
       DriverRun(unlink_ok, setup_ok, success, saved)

DriverSpec == DriverInit /\ [][DriverNext]_vars

(* ------------------------------------------------------------------ *)
(* Properties                                                         *)
(* ------------------------------------------------------------------ *)
\* the tasks that are inside _run_cycle
InCycle == {p \in Procs : cyc[p].phase # "none"}

\* handler c takes a call in this step
Calling(c) == CanCall(c) /\ ncalls' = ncalls + 1

\* handler c takes a call of `op` in this step
Calls(c, op) == Calling(c) /\ call'[c].op = op

\* C1: at most one execution of _run_cycle is in progress at any time, whatever the
\* interleaving of start(), stop() and run_once() calls.
C1_OneCycleAtATime == Cardinality(InCycle) <= 1

\* C1 witness: a cycle is in progress and another task waits for the lock to run one
C1_Witness == InCycle # {} /\ lockQueue # <<>>

\* C2: download_photo is invoked only for a photo whose fingerprint is absent from
\* the Dedup Store at the moment of the fetch.
C2_NoKnownFingerprintFetched == \A i \in DOMAIN dl_log : ~dl_log[i].known

\* C3: a fingerprint is recorded in the Dedup Store only after its bytes were
\* written to a sink (cloud or local).
C3_RecordedOnlyIfStored ==
  \A i \in DOMAIN dl_log : dl_log[i].recorded => dl_log[i].stored

\* C4: a run-once request that arrives while the loop is running is rejected: no
\* cycle is begun or queued, and the active config and runtime-config.json of the
\* running loop stay as they are.
C4_RunOnceRejectedWhileRunning ==
  [][\A c \in Callers :
       (Calls(c, "run_once") /\ IsRunning)
         => /\ call'[c].ret = "HTTP400 running"
            /\ call'[c].pc = "idle"
            /\ UNCHANGED <<active_config, rt_file, cyc, loop_index, lockVars>>]_vars

\* C4 witness: a run-once request was rejected because the loop is running
C4_Witness ==
  \E c \in Callers :
    /\ call[c].op = "run_once"
    /\ call[c].ret = "HTTP400 running"
    /\ IsRunning
    /\ active_config # NoConfig

\* C5: start() called while the loop is running returns False whatever config it
\* is given, and leaves the active config, runtime-config.json, the stop flag and
\* the loop task unchanged.
C5_StartWhileRunningIsNoOp ==
  [][\A c \in Callers :
       (Calls(c, "start") /\ IsRunning)
         => /\ call'[c].ret = "False"
            /\ UNCHANGED <<active_config, rt_file, stop_event, task, loopPc, ticks>>]_vars

\* C5 witness: start() has returned False on a running loop that keeps its config
C5_Witness ==
  \E c \in Callers :
    /\ call[c].op = "start"
    /\ call[c].ret = "False"
    /\ IsRunning
    /\ active_config # NoConfig
    /\ rt_file = active_config

\* C6: stop() called when the loop is not running returns False and changes
\* neither the active config nor runtime-config.json.
C6_StopWhenIdleChangesNothing ==
  [][\A c \in Callers :
       (Calls(c, "stop") /\ ~IsRunning)
         => /\ call'[c].ret = "False"
            /\ UNCHANGED <<active_config, rt_file>>]_vars

\* C7: a stop() that found the loop running ends by returning True, with the
\* active config None and runtime-config.json absent at its return.
C7_StopReturnsTrue ==
  [][\A c \in Callers :
       (call[c].op = "stop" /\ call[c].pc # "idle" /\ call'[c].pc = "idle")
         => /\ call'[c].ret = "True"
            /\ active_config' = NoConfig
            /\ rt_file' = NoConfig]_vars

BlankValue(v) ==
  \/ v.t = "missing"
  \/ v.t = "str" /\ \A i \in DOMAIN v.s : v.s[i] = " "

NumericString(v) ==
  /\ v.t = "str"
  /\ \E i \in DOMAIN v.s : v.s[i] # " "
  /\ \A i \in DOMAIN v.s : v.s[i] = " " \/ IsDigit(v.s[i])

\* a positive integer: 3, "3", 3.0
PositiveInteger(v) ==
  \/ v.t = "int" /\ v.n > 0
  \/ v.t = "float" /\ v.n > 0 /\ v.n % 10 = 0
  \/ NumericString(v) /\ \E i \in DOMAIN v.s : IsDigit(v.s[i]) /\ v.s[i] # "0"

\* a value whose integer part is positive: also 2.5
PositiveIntegerPart(v) ==
  \/ PositiveInteger(v)
  \/ v.t = "float" /\ v.n >= 10

\* no config at all: no argument and, for start(), no runtime-config.json either
NoConfigGiven(raw, op) ==
  /\ raw.kind = "none" \/ raw = Dict(Missing, Missing, Missing)
  /\ op = "start" => rt_file = NoConfig

InvalidAsClaimed(raw, op) ==
  \/ NoConfigGiven(raw, op)
  \/ /\ ~Falsy(raw)
     /\ \/ BlankValue(raw.target_url)
        \/ BlankValue(raw.dropbox_save_path)
        \/ ~PositiveInteger(raw.check_interval)

InvalidAsAmended(raw, op) ==
  \/ NoConfigGiven(raw, op)
  \/ /\ ~Falsy(raw)
     /\ \/ BlankValue(raw.target_url)
        \/ BlankValue(raw.dropbox_save_path)
        \/ ~PositiveIntegerPart(raw.check_interval)

\* this step is a call of start(raw) on a Runner whose loop is not running, or of
\* run_once(raw)
ValidatingCall(c, raw) ==
  \/ call'[c].op = "start" /\ ~IsRunning /\ Start(c, raw)
  \/ call'[c].op = "run_once" /\ \E w \in NoWipe : RunOnce(c, raw, w, TRUE)

\* the call of handler c raised the validation error and left the Runner as it was
RejectedUntouched(c) ==
  /\ call'[c].ret = "ValueError"
  /\ UNCHANGED <<runnerVars, lockVars, cyc, loop_index>>

Trimmed(s) ==
  LET solid == {i \in DOMAIN s : s[i] # " "} IN
  IF solid = {} THEN <<>>
  ELSE SubSeq(s, CHOOSE i \in solid : \A j \in solid : i <= j,
                 CHOOSE i \in solid : \A j \in solid : j <= i)

\* the integer a valid interval stands for
IntegerOf(v) ==
  CASE v.t = "int" -> v.n
    [] v.t = "float" -> CHOOSE k \in 0..v.n : k * 10 <= v.n /\ v.n < (k + 1) * 10
    [] OTHER -> CHOOSE k \in 0..99 : Trimmed(v.s) = (IF k < 10 THEN <<DigitChars[k + 1]>>
                  ELSE <<DigitChars[(k \div 10) + 1], DigitChars[(k % 10) + 1]>>)

\* the config the claim expects for a payload: trimmed URL and path, integer interval
Expected(raw) ==
  [target_url |-> Trimmed(raw.target_url.s),
   dropbox_save_path |-> Trimmed(raw.dropbox_save_path.s),
   check_interval |-> IntegerOf(raw.check_interval)]

\* C10: when start(config) returns True, the loop task is running and not asked
\* to stop, and the active config and runtime-config.json both hold the
\* normalized config (trimmed URL and path, integer interval).
C10_StartActivatesAndPersists ==
  [][\A c \in Callers :
       (Calls(c, "start") /\ call'[c].ret = "True") =>
         \A raw \in RawConfigs :
           (~Falsy(raw) /\ ~InvalidAsAmended(raw, "start") /\ Start(c, raw))
             => /\ task' = "running"
                /\ loopPc' = "top"
                /\ ~stop_event'
                /\ active_config' = Expected(raw)
                /\ rt_file' = Expected(raw)]_vars

\* C10 witness: start() has returned True on an idle Runner and the config given
\* with blanks around its values is active and persisted without them
C10_Witness ==
  \E c \in Callers :
    /\ call[c].op = "start"
    /\ call[c].ret = "True"
    /\ \A d \in Callers : call[d].pc = "idle"
    /\ IsRunning
    /\ loopPc = "top"
    /\ active_config = CfgW
    /\ rt_file = CfgW

\* handler c returns from a run_once that the Runner had accepted
RunOnceReturns(c) ==
  call[c].op = "run_once" /\ call[c].pc # "idle" /\ call'[c].pc = "idle"

\* C11: every accepted run_once(config) call executes exactly one cycle, with the
\* config passed to that very call, and at its return the active config and
\* runtime-config.json are cleared, also when run_once calls overlap.
C11_RunOnceRunsItsOwnCycle ==
  [][\A c \in Callers :
       RunOnceReturns(c)
         => /\ call'[c].ret = "completed"
            /\ Len(history_file') = Len(history_file) + 1
            /\ status_file'.config = call[c].cfg
            /\ active_config' = NoConfig
            /\ rt_file' = NoConfig]_vars

\* task p is woken inside, or enters, _run_cycle and an exception leaves it: the
\* RuntimeError of _current_config (the loop's other read of the config is made
\* after the cycle, at loopPc = "cycle")
CycleRaises(p) ==
  IF p = LoopTask
  THEN loopPc \in {"top", "locked"} /\ task' = "failed"
  ELSE call[p].op = "run_once" /\ call[p].pc = "locked" /\ call'[p].ret = "RuntimeError"

\* the cycle of task p ends in this step
CycleEnds(p) == cyc[p].phase # "none" /\ cyc'[p].phase = "none"

\* C12: every execution of a cycle writes exactly one CycleResult to status.json
\* and appends that one to history.jsonl; a cycle that fails before its end has
\* success = false and a last_error; no exception leaves _run_cycle.
C12_EveryCycleLeavesOneResult ==
  [][\A p \in Procs :
       /\ ~CycleRaises(p)
       /\ CycleEnds(p)
            => /\ history_file' = Append(history_file, status_file')
               /\ status_file'.loop_index = cyc[p].idx
               /\ status_file'.success = ~status_file'.last_error
               /\ cyc[p].phase # "close" => ~status_file'.success]_vars

\* an iteration of main() ends in the except clause in this step
MainCycleFails == unit.kind = "main" /\ unit'.streak = unit.streak + 1

\* C13: a failed cycle does not end the continuous loop (short of the failure
\* ceiling), and the cycle after it starts only after a wait of check_interval
\* seconds.
C13_NextCycleAfterInterval ==
  [][/\ MainCycleFails
          => unit'.pc = "retry" \/ unit'.connection_failures >= MAX_CONNECTION_FAILURES
     /\ (unit.kind = "main" /\ unit.pc = "retry" /\ unit'.pc = "nav")
          => unit.wait = CHECK_INTERVAL]_vars

\* C14: the continuous loop has stopped itself exactly when N cycles in a row
\* have failed, N being MAX_CONNECTION_FAILURES, whatever step of the cycle
\* failed.
C14_StopsAtFailureCeiling ==
  unit.kind = "main" =>
    (unit.pc = "exit" <=> unit.streak >= MAX_CONNECTION_FAILURES)

\* C15: clear_history() is refused, and deletes nothing, whenever the loop is
\* active or a cycle (loop or one-shot) is executing; when permitted it removes
\* the Dedup Store file (if the file system lets it) and re-arms the fresh-start
\* flag.
C15_ClearOnlyWhenIdle ==
  [][\A c \in Callers :
       Calls(c, "clear") =>
         IF IsRunning \/ InCycle # {}
         THEN /\ call'[c].ret = "RuntimeError"
              /\ UNCHANGED <<dedup_file, local_files, cleared>>
         ELSE /\ call'[c].ret = "cleared"
              /\ dedup_file' \in {NoFile, dedup_file}
              /\ ~cleared']_vars

\* the fingerprints persisted in downloaded.json
Persisted == LoadHistory(dedup_file)

\* a call of clear_history() is made in this step
Clearing == \E c \in Callers : Calls(c, "clear")

\* a cycle begins in this step with the fresh-start wipe armed
FreshStartWipe == FreshStartFires /\ loop_index' = loop_index + 1

\* a download is recorded in this step for a fingerprint that is persisted
ReRecords ==
  /\ dl_log' # dl_log
  /\ \E i \in DOMAIN dl_log' : dl_log'[i].recorded /\ dl_log'[i].fp \in Persisted

\* C16 as claimed: a persisted DedupRecord is never changed or removed by cycles,
\* start, stop or run_once; only clear_history() removes records.
C16_RecordsOnlyRemovedByClear ==
  [][/\ Clearing \/ Persisted \subseteq LoadHistory(dedup_file')
     /\ ~ReRecords]_vars

\* C16 amended: the same, except for the fresh-start wipe, which a cycle that
\* begins with the flag armed performs.
C16_RecordsRemovedByClearOrWipe ==
  [][/\ Clearing \/ FreshStartWipe \/ Persisted \subseteq LoadHistory(dedup_file')
     /\ ~ReRecords]_vars

\* C16 witness: the record of an earlier process is still persisted, beside a new
\* one, after two cycles of a loop that was started and stopped
C16_Witness ==
  /\ {"A", "B"} \subseteq Persisted
  /\ loop_index >= 2
  /\ \E c \in Callers : call[c].op = "stop" /\ call[c].ret = "True"

\* C17: when the cloud sink is enabled and the upload fails on all its attempts,
\* download_photo reports failure: the item is not recorded and nothing of it
\* is stored, whether or not local saving is enabled.
C17_CloudFailureFailsItem ==
  \A i \in DOMAIN dl_log :
    (dl_log[i].cloud /\ dl_log[i].out = "upload_fail")
      => ~dl_log[i].recorded /\ ~dl_log[i].stored

\* C17 witness: an upload has failed in a cycle with the cloud sink and local
\* saving both enabled
C17_Witness ==
  /\ env.save_to_local
  /\ \E i \in DOMAIN dl_log : dl_log[i].cloud /\ dl_log[i].out = "upload_fail"

\* an item whose fetch or upload attempts were exhausted
FailedItem(e) == e.out = "fetch_fail" \/ (e.cloud /\ e.out = "upload_fail")

FailedItems(log) == {i \in DOMAIN log : FailedItem(log[i])}

\* C19: a failed item stops neither the processing of the remaining resolved
\* photos nor the cycle: every resolved photo is processed, and a cycle without
\* cycle-scoped error reports success = true, download_failed being the number
\* of failed items and download_success the number of the others.
C19_ItemFailureKeepsCycleGoing ==
  [][\A p \in Procs :
       /\ (cyc[p].phase = "resolve" /\ cyc'[p].phase = "close")
            => /\ Len(dl_log') = cyc'[p].resolved
               /\ cyc'[p].failed = Cardinality(FailedItems(dl_log'))
               /\ cyc'[p].ok = Len(dl_log') - Cardinality(FailedItems(dl_log'))
       /\ (CycleEnds(p) /\ ~status_file'.last_error)
            => /\ status_file'.success
               /\ status_file'.download_failed = cyc[p].failed
               /\ status_file'.download_success = cyc[p].ok]_vars

\* C19 witness: a cycle has reported success with one item failed and another
\* one downloaded and recorded
C19_Witness ==
  /\ status_file.success
  /\ status_file.download_failed >= 1
  /\ status_file.download_success >= 1
  /\ dedup_file.downloads # {}

\* the attempts of one loop obey the retry rule: at most `max` of them, and
\* none after a successful one
RetryRule(outcomes, max) ==
  /\ Len(outcomes) <= max
  /\ \A i \in DOMAIN outcomes : outcomes[i] => i = Len(outcomes)

Succeeded(outcomes) == outcomes # <<>> /\ outcomes[Len(outcomes)]

\* C18: download_photo makes at most N = MAX_DOWNLOAD_RETRIES fetch attempts,
\* none after the first successful one, and gives the item up as failed only
\* after exactly N failed attempts; the upload attempts follow the same rule
\* and begin only after a successful fetch.
C18_AtMostNAttempts ==
  unit.kind = "download" =>
    /\ RetryRule(unit.fetches, unit.max)
    /\ RetryRule(unit.uploads, unit.max)
    /\ unit.uploads # <<>> => Succeeded(unit.fetches)
    /\ unit.pc = "done" =>
         /\ ~Succeeded(unit.fetches)
              => Len(unit.fetches) = unit.max /\ unit.ret = "False"
         /\ (Succeeded(unit.fetches) /\ unit.dropbox_client /\ ~Succeeded(unit.uploads))
              => Len(unit.uploads) = unit.max /\ unit.ret = "False"
         /\ unit.ret = "True"
              => /\ Succeeded(unit.fetches)
                 /\ unit.dropbox_client => Succeeded(unit.uploads)

\* C18 witness: with N = 5 the fetch has succeeded on its third attempt and the
\* upload has been given up after five failed attempts
C18_Witness ==
  /\ unit.kind = "download"
  /\ unit.pc = "done"
  /\ unit.max = MAX_DOWNLOAD_RETRIES
  /\ Len(unit.fetches) = 3
  /\ Succeeded(unit.fetches)
  /\ Len(unit.uploads) = unit.max
  /\ ~Succeeded(unit.uploads)
  /\ unit.ret = "False"

\* C20: a crash at any point of save_history loses at most the records of the
\* cycle in progress: the next load still returns every record that earlier
\* cycles had persisted.
C20_CrashInSaveKeepsEarlierRecords ==
  [][(booted /\ ~booted') => Persisted \subseteq LoadHistory(dedup_file')]_vars

\* C21: loading the Dedup Store never raises: a missing file, an unreadable or
\* malformed file and a file whose version is missing or differs from "2.0" all
\* load as an empty store, and only a version "2.0" file yields its downloads
\* mapping.
C21_LoadNeverRaises ==
  (unit.kind = "history" /\ unit.last = "load") =>
    /\ ~unit.raised
    /\ (unit.file.kind # "object" \/ unit.file.version # "2.0") => unit.downloads = {}
    /\ unit.downloads # {} =>
         /\ unit.file.kind = "object"
         /\ unit.file.version = "2.0"
         /\ unit.file.downloads = DictMember(unit.downloads)
    /\ (unit.file.kind = "object" /\ unit.file.version = "2.0"
          /\ unit.file.downloads.t = "dict")
         => unit.downloads = unit.file.downloads.entries

\* C21 witness: a file of version "1.0" that holds records has been loaded
\* as an empty store
C21_Witness ==
  /\ unit.kind = "history"
  /\ unit.last = "load"
  /\ unit.file.kind = "object"
  /\ unit.file.version = "1.0"
  /\ unit.file.downloads.t = "dict"
  /\ unit.file.downloads.entries # {}
  /\ unit.downloads = {}
  /\ ~unit.raised

\* C22: save() followed by load() on the same file yields an equivalent
\* downloads mapping: the same fingerprints, each with the same
\* original_filename, thumbnail_url and download_time.
C22_SaveLoadRoundTrip ==
  [][(unit.kind = "history" /\ unit.last = "save" /\ unit'.last = "load")
       => /\ ~unit'.raised
          /\ unit'.downloads = unit.downloads]_vars

\* C22 witness: a store of two records has been saved and loaded again
C22_Witness ==
  /\ unit.kind = "history"
  /\ unit.prev = "save"
  /\ unit.last = "load"
  /\ DictKeys(unit.downloads) = Fingerprints

\* the entries of a dict for a key
EntriesOf(d, key) == {e \in d : e.key = key}

\* C23: recording a fingerprint that is already in the store leaves is_known
\* true and the store with exactly one entry for that fingerprint (the number
\* of keys does not grow), and leaves every other entry unchanged.
C23_RecordTwiceOneEntry ==
  [][(unit.kind = "history" /\ unit'.last = "add")
       => LET fp == unit'.key IN
          /\ IsDownloadedByFingerprint(unit'.downloads, fp)
          /\ Cardinality(EntriesOf(unit'.downloads, fp)) = 1
          /\ IsDownloadedByFingerprint(unit.downloads, fp)
               => /\ Cardinality(unit'.downloads) = Cardinality(unit.downloads)
                  /\ DictKeys(unit'.downloads) = DictKeys(unit.downloads)
          /\ \A e \in unit.downloads : e.key # fp => e \in unit'.downloads
          /\ \A e \in unit'.downloads : e.key # fp => e \in unit.downloads]_vars

\* C23 witness: the same fingerprint has been recorded twice in a row, beside
\* the record of another fingerprint
C23_Witness ==
  /\ unit.kind = "history"
  /\ unit.prev = "add"
  /\ unit.last = "add"
  /\ unit.key = "A"
  /\ unit.prevkey = "A"
  /\ DictKeys(unit.downloads) = Fingerprints

\* a run_once call is executing
RunOnceInFlight == \E c \in Callers : call[c].op = "run_once" /\ call[c].pc # "idle"

Quiet == booted /\ ~IsRunning /\ \A c \in Callers : call[c].pc = "idle"

FixedUrl(url) == IF StartsWith(url, <<"/", "/">>) THEN Https \o url ELSE url

\* s is what is left of w when it is cut at its first '?' or '~'
IsCut(s, w) ==
  /\ Len(s) <= Len(w)
  /\ s = SubSeq(w, 1, Len(s))
  /\ ~Contains(s, "?") /\ ~Contains(s, "~")
  /\ Len(s) < Len(w) => w[Len(s) + 1] \in {"?", "~"}

\* s is the last '/'-delimited segment of w
IsLastSegment(s, w) ==
  /\ Len(s) <= Len(w)
  /\ s = SubSeq(w, Len(w) - Len(s) + 1, Len(w))
  /\ ~Contains(s, "/")
  /\ Len(s) < Len(w) => w[Len(w) - Len(s)] = "/"

\* r is the fingerprint the algorithm describes for the URL
IsFingerprintOf(r, url) ==
  /\ r.kind = "filename"
  /\ \E n \in 0..Len(FixedUrl(url)) :
       LET cut == SubSeq(FixedUrl(url), 1, n) IN
       IsCut(cut, FixedUrl(url)) /\ IsLastSegment(r.s, cut)

\* the segment that is left after the cuts
CutSegment(url) ==
  CHOOSE s \in {SubSeq(FixedUrl(url), i, j) : i \in 1..(Len(FixedUrl(url)) + 1),
                                              j \in 0..Len(FixedUrl(url))} :
    \E n \in 0..Len(FixedUrl(url)) :
      LET cut == SubSeq(FixedUrl(url), 1, n) IN
      IsCut(cut, FixedUrl(url)) /\ IsLastSegment(s, cut)

\* the calls made return the described fingerprint, and the same one
FingerprintAsDescribed ==
  /\ \A i \in DOMAIN unit.results : IsFingerprintOf(unit.results[i], unit.url)
  /\ \A i, j \in DOMAIN unit.results : unit.results[i] = unit.results[j]

\* C25 as claimed: for every non-empty URL with a non-empty final path segment
\* fingerprint_of returns the last '/'-delimited segment of the URL after the
\* 'https:' prefix and the cuts at the first '?' and the first '~', and two
\* calls on the same URL return the same string.
C25_FingerprintOfFinalSegment ==
  (unit.kind = "fingerprint" /\ unit.url # <<>> /\ LastSegment(unit.url) # <<>>)
    => FingerprintAsDescribed

\* C25 amended: the same for every URL whose segment left after the cuts is
\* non-empty.
C25_FingerprintOfCutSegment ==
  (unit.kind = "fingerprint" /\ unit.url # <<>> /\ CutSegment(unit.url) # <<>>)
    => FingerprintAsDescribed

\* C25 witness: two calls have been made on a protocol-relative URL that ends
\* with a CDN suffix
C25_Witness ==
  /\ unit.kind = "fingerprint"
  /\ unit.url = <<"/", "/", "a", "~">>
  /\ Len(unit.results) = 2
  /\ unit.results[1] = Filename(<<"a">>)

\* C26: whenever the loop task is running the active config is set, under every
\* interleaving of start(), stop() and run_once(): the loop never finds the
\* config uninitialized and never ends with the 'config not initialized'
\* RuntimeError.
C26_LoopAlwaysHasConfig ==
  /\ IsRunning => active_config # NoConfig
  /\ task # "failed"

\* the loop task begins a cycle in this step
LoopBeginsCycle == cyc[LoopTask].phase = "none" /\ cyc'[LoopTask].phase # "none"

Clicked(log) == {i \in DOMAIN log : log[i].clicked}
Opened(log) == {i \in DOMAIN log : log[i].opened}
ItemsOf(page, fps) == {i \in DOMAIN page : page[i] \in fps}

RECURSIVE SumEscapes(_)
SumEscapes(log) == IF log = <<>> THEN 0 ELSE Head(log).escapes + SumEscapes(Tail(log))

\* C28: the resolver opens the detail view only of items whose recomputed
\* fingerprint is in the target set and skips every other item without a click
\* or a key press; with one target shown by exactly one item of the page, and
\* no failure, exactly one open and one close are performed, whatever the
\* number of visible items.
C28_OnlyTargetsAreOpened ==
  unit.kind = "resolver" =>
    /\ \A i \in DOMAIN unit.log :
         /\ unit.log[i].fp = unit.page[i]
         /\ unit.log[i].clicked => unit.log[i].fp \in unit.targets
         /\ (unit.log[i].fp \notin unit.targets /\ ~unit.log[i].failed)
              => ~unit.log[i].clicked /\ unit.log[i].escapes = 0
    /\ (unit.pc = "done" /\ \A i \in DOMAIN unit.log : ~unit.log[i].failed)
         => /\ Clicked(unit.log) = ItemsOf(unit.page, unit.targets)
            /\ Opened(unit.log) = ItemsOf(unit.page, unit.targets)
            /\ SumEscapes(unit.log) = Cardinality(ItemsOf(unit.page, unit.targets))

\* C28 witness: with target set {A}, a page of three items of which the second
\* alone shows A has been gone through with one open and one close
C28_Witness ==
  /\ unit.kind = "resolver"
  /\ unit.pc = "done"
  /\ unit.targets = {"A"}
  /\ unit.page = <<"B", "A", "B">>
  /\ Clicked(unit.log) = {2}
  /\ SumEscapes(unit.log) = 1
  /\ unit.photo_urls = <<"A">>

RECURSIVE ResolvedOf(_)
\* the fingerprints of the resolved items of a log, in order
ResolvedOf(log) ==
  IF log = <<>> THEN <<>>
  ELSE IF Head(log).resolved THEN <<Head(log).fp>> \o ResolvedOf(Tail(log))
  ELSE ResolvedOf(Tail(log))

\* C29: in the resolver a failure while processing one item never aborts the
\* batch: it is caught, a close of the detail view is attempted before the next
\* item is opened, and the photos resolved before and after the failing item
\* are all returned.
C29_ItemFailureNeverAbortsBatch ==
  unit.kind = "resolver" =>
    /\ ~unit.raised
    /\ \A i \in DOMAIN unit.log : unit.log[i].failed => unit.log[i].escapes >= 1
    /\ unit.photo_urls = ResolvedOf(unit.log)
    /\ (unit.pc = "done" /\ unit.targets # {}) => Len(unit.log) = Len(unit.page)

\* C29 witness: the second of three target items failed after its detail view
\* was opened, and the first and the third are returned
C29_Witness ==
  /\ unit.kind = "resolver"
  /\ unit.pc = "done"
  /\ Len(unit.log) = 3
  /\ unit.log[2].failed /\ unit.log[2].opened /\ ~unit.log[2].resolved
  /\ unit.log[1].resolved /\ unit.log[3].resolved
  /\ unit.photo_urls = <<unit.page[1], unit.page[3]>>

\* the largest count among the first n observations (0 before the first)
RECURSIVE HighestCount(_, _)
HighestCount(counts, n) ==
  IF n = 0 THEN 0
  ELSE IF counts[n] > HighestCount(counts, n - 1) THEN counts[n]
  ELSE HighestCount(counts, n - 1)

\* observation n shows more items than any observation before it
Growth(counts, n) == counts[n] > HighestCount(counts, n - 1)

\* the number of observations without growth since the last growth
RECURSIVE Stall(_, _)
Stall(counts, n) ==
  IF n = 0 \/ Growth(counts, n) THEN 0 ELSE 1 + Stall(counts, n - 1)

\* C30: during scrolling an observation with a strictly increased item count
\* resets the stall counter to 0 and an observation without increase increments
\* it by one; scrolling ends before the iteration cap exactly when the counter
\* reaches 3, after three consecutive observations without growth and never
\* after only one or two.
C30_StopsAfterThreeStalls ==
  unit.kind = "scroll" =>
    /\ unit.scroll_count = Len(unit.counts)
    /\ unit.no_change_count = Stall(unit.counts, Len(unit.counts))
    /\ unit.pc = "loop" => unit.no_change_count < 3
    /\ (unit.pc = "done" /\ unit.scroll_count < MaxScroll) => unit.no_change_count = 3
    /\ unit.no_change_count = 3 => unit.pc = "done"
    /\ unit.scroll_count <= MaxScroll

\* C30 witness: an observation without growth, a growth, then three
\* observations without growth have ended the scrolling before the cap
C30_Witness ==
  /\ unit.kind = "scroll"
  /\ unit.pc = "done"
  /\ unit.counts = <<0, 1, 1, 1, 1>>
  /\ unit.no_change_count = 3
  /\ unit.scroll_count < MaxScroll

\* C39: in scroll_to_load_all the tracked count last_photo_count never decreases
\* and always equals the largest item count observed so far; an observation that
\* does not exceed that maximum, even when it exceeds the observation before it,
\* is no growth and increments the stall counter.
C39_TracksLargestCount ==
  [][(unit.kind = "scroll" /\ unit'.kind = "scroll") =>
       /\ unit'.last_photo_count >= unit.last_photo_count
       /\ unit'.last_photo_count = HighestCount(unit'.counts, Len(unit'.counts))
       /\ \A current \in 0..unit.last_photo_count :
            unit'.counts = Append(unit.counts, current) =>
              /\ unit'.no_change_count = unit.no_change_count + 1
              /\ unit'.last_photo_count = unit.last_photo_count]_vars

\* C39 witness: after the counts 2, 0, 1 the tracked count is still 2 and the
\* last two observations have both counted as stalls
C39_Witness ==
  /\ unit.kind = "scroll"
  /\ unit.counts = <<2, 0, 1>>
  /\ unit.last_photo_count = 2
  /\ unit.no_change_count = 2
  /\ unit.pc = "loop"

\* the last '/'-delimited segment of the URL after cutting at the first '?' and
\* then at the first '~'
CutThenLastSegment(url) ==
  SplitLast(SplitFirst(SplitFirst(url, "?"), "~"), "/")

\* C37: for every resolved URL the extracted filename equals the last
\* '/'-delimited segment of the URL taken after cutting at the first '?' and then
\* at the first '~', also when the query string or the part after '~' holds a '/'.
C37_FilenameOfCutUrl ==
  (unit.kind = "filename" /\ unit.pc = "done") =>
    unit.result = CutThenLastSegment(unit.url)

\* C38: fingerprint_of on an empty URL returns a synthetic fallback, and with no
\* index given any two calls return different strings.
C38_FallbacksDiffer ==
  (unit.kind = "fingerprint" /\ unit.url = <<>>) =>
    /\ \A i \in DOMAIN unit.results : unit.results[i].kind = "fallback"
    /\ (unit.index = NoIndex /\ Len(unit.results) = 2) =>
         unit.results[1] # unit.results[2]

\* the items among the first n of the page that the scan has an entry for
EntryMatches(entry, item, i) ==
  /\ entry.index = i - 1
  /\ item.state = "url" =>
       /\ entry.thumbnail_url = item.url
       /\ entry.fingerprint.kind = "filename"
       /\ entry.fingerprint.s = (IF item.url = UrlA THEN <<"a">> ELSE <<"b">>)
  /\ item.state # "url" =>
       /\ entry.thumbnail_url = <<>>
       /\ entry.fingerprint.kind = "fallback"
       /\ entry.fingerprint.seed = ToString(i - 1)

\* C31: scroll_to_load_all always terminates, after at most MAX_SCROLL_ATTEMPTS
\* scroll commands, also when the item count grows at every observation; reaching
\* the cap is not an error, and the scanner goes on to fingerprint the items that
\* are loaded.
C31_ScrollingEndsAndScanGoesOn ==
  /\ [](unit.kind = "scroll" => unit.scroll_count <= MaxScroll)
  /\ <>(unit.kind = "scan")
  /\ (unit.kind = "scroll" /\ unit.scroll_count >= MaxScroll)
       ~> (unit.kind = "scan" /\ unit.pc = "done")

\* C31 witness: the count has grown at every one of MAX_SCROLL_ATTEMPTS
\* observations and the scrolling has ended at the cap
C31_Witness ==
  /\ unit.kind = "scroll"
  /\ unit.pc = "done"
  /\ unit.scroll_count = MaxScroll
  /\ unit.no_change_count = 0
  /\ \A n \in DOMAIN unit.counts : Growth(unit.counts, n)

\* C32: the scanner returns exactly one ScanItem per enumerated gallery item, in
\* page order with index i for the i-th item; an item whose source is empty,
\* missing or unreadable yields an entry with a fallback fingerprint, so the
\* number of ScanItems equals the number of items.
C32_OneScanItemPerItem ==
  unit.kind = "scan" =>
    /\ Len(unit.fingerprints) = unit.idx
    /\ \A i \in DOMAIN unit.fingerprints :
         EntryMatches(unit.fingerprints[i], unit.photo_items[i], i)
    /\ unit.pc = "done" => Len(unit.fingerprints) = Len(unit.photo_items)

\* C32 witness: a page with an unreadable, a readable and an empty item has been
\* scanned to the end
C32_Witness ==
  /\ unit.kind = "scan"
  /\ unit.pc = "done"
  /\ Len(unit.photo_items) = 3
  /\ unit.photo_items[1].state = "unreadable"
  /\ unit.photo_items[2].state = "url"
  /\ unit.photo_items[3].state = "empty"
  /\ Len(unit.fingerprints) = 3
  /\ unit.fingerprints[2].fingerprint = Filename(<<"a">>)

\* the positions of `page` whose fingerprint is not in `store`
UnseenPositions(page, store) == {i \in DOMAIN page : page[i] \notin store}

\* `unknown` lists the items at the unseen positions of `page`, in page order
IsUnseenList(unknown, page, store) ==
  LET unseen == UnseenPositions(page, store) IN
  /\ Len(unknown) = Cardinality(unseen)
  /\ \A i \in unseen :
       unknown[Cardinality({j \in unseen : j <= i})] = page[i]

\* C33: the unseen list computed in a cycle holds exactly the scanned items whose
\* fingerprint is not in the loaded Dedup Store, in scan order, and total_photos
\* equals new_photos plus the number of scanned items already in the store.
C33_UnseenIsScanMinusStore ==
  [][\A p \in Procs : \A page \in Pages :
       ScanDone(p, page) =>
         /\ IsUnseenList(cyc'[p].unknown, page, cyc[p].downloads)
         /\ cyc'[p].total =
              cyc'[p].new
                + Cardinality({i \in DOMAIN page : page[i] \in cyc[p].downloads})]_vars

\* C33 witness: over the store {B} a scan that showed two items has left A as the
\* only unseen item
C33_Witness ==
  \E p \in Procs :
    /\ cyc[p].phase = "resolve"
    /\ cyc[p].downloads = {"B"}
    /\ cyc[p].unknown = <<"A">>
    /\ cyc[p].total = 2
    /\ cyc[p].new = 1

CycleBegins == loop_index' = loop_index + 1

\* the Dedup Store file or the local photo directory is emptied in this step
Wipes ==
  \/ dedup_file.exists /\ ~dedup_file'.exists
  \/ local_files # {} /\ local_files' = {}

\* C35: with the fresh-start flag configured the wipe of the Dedup Store file and
\* the local photo directory is performed by at most one cycle per process
\* lifetime, the first one; that cycle consumes the flag even when the deletion
\* fails, and no later cycle wipes unless clear_history() has re-armed the flag in
\* between.
C35_FreshStartWipesOnce ==
  [][/\ (CycleBegins /\ env.fresh_start) => cleared'
     /\ (CycleBegins /\ Wipes) => (env.fresh_start /\ ~cleared)
     /\ (cleared /\ ~cleared') => Clearing
     /\ ~CycleBegins => ~Wipes \/ Clearing]_vars

\* C35 witness: the first cycle could not delete the Dedup Store file, and a second
\* cycle has run over the records of the earlier process without a wipe
C35_Witness ==
  /\ env.fresh_start
  /\ cleared
  /\ loop_index = 2
  /\ dedup_file.exists
  /\ dedup_file.downloads = {"A", "B"}
  /\ \A c \in Callers : call[c].op # "clear"

\* C36: when cloud credentials are configured but the client verification or the
\* remote path check fails, the sink is disabled for that cycle only and the
\* cycle goes on; the failure alone never makes the cycle report success=false,
\* and the next cycle tries to initialize the sink again.
C36_SinkFailureDisablesSinkOnly ==
  (unit.kind = "cloud" /\ unit.creds # "none") =>
    /\ unit.failure => unit.pc # "raised"
    /\ (unit.failure /\ unit.pc = "session") => ~unit.dropbox_client
    /\ \A i \in DOMAIN unit.results :
         /\ unit.results[i].tried
         /\ unit.results[i].failure => ~unit.results[i].dropbox_enabled

\* the driver makes a run in this step
DriverRuns == unit.kind = "driver" /\ unit'.runs = unit.runs + 1

\* 'enabled' is false, or fewer than 'interval' minutes have passed since
\* lastRunTime
NotDue ==
  \/ ~unit.config.enabled
  \/ /\ unit.config.lastRunTime.kind = "iso"
     /\ unit.now - unit.config.lastRunTime.at < unit.config.interval

\* C40: run_single_cycle scans and downloads nothing and leaves
\* runtime-config.json unwritten when 'enabled' is false or fewer than 'interval'
\* minutes have passed since lastRunTime; otherwise it runs one cycle and
\* afterwards, on success and on failure alike, writes lastRunTime,
\* lastRunSuccess and clearHistory=false, so that one clearHistory request wipes
\* the history in exactly one run.
C40_DriverRunsWhenDue ==
  [][DriverRuns =>
       IF NotDue
       THEN /\ ~unit'.last.cycle
            /\ unit'.config = unit.config
            /\ unit'.history = unit.history
       ELSE /\ unit'.last.cycle
            /\ unit'.config.lastRunTime = LastRunAt(unit.now)
            /\ ~unit'.config.clearHistory]_vars

====
